---- MODULE Spec2Model ----
(***************************************************************************)
(* Ambient: intention codec, temporal policy and interaction store.        *)
(*                                                                         *)
(* A JavaScript string is modelled as a sequence of Unicode code points    *)
(* (naturals); a byte buffer as a sequence of naturals in 0..255.  A       *)
(* JavaScript value is a record [t |-> tag, v |-> payload]:                *)
(*   "null"  v = 0            "bool"  v \in BOOLEAN     "num"  v \in Int   *)
(*   "str"   v = string       "arr"   v = sequence of values               *)
(*   "obj"   v = sequence of <<key, value>> pairs in insertion order       *)
(*   "numtext" v = the lexeme of a number that is not written as an        *)
(*             integer (fraction or exponent)                              *)
(*   "undefined", "nan"  v = 0                                             *)
(* Clock readings are milliseconds since EpochDate at local midnight (the  *)
(* model checker's integers are 32 bits wide, too narrow for milliseconds  *)
(* since 1970); every rule of the program compares differences of clock    *)
(* readings only.                                                          *)
(***************************************************************************)
EXTENDS Integers, Sequences, FiniteSets, TLC

(***************************************************************************)
(* String literals                                                         *)
(***************************************************************************)
AsciiTable ==
  <<" ", "!", "\"", "#", "$", "%", "&", "'", "(", ")", "*", "+", ",", "-", ".", "/",
    "0", "1", "2", "3", "4", "5", "6", "7", "8", "9", ":", ";", "<", "=", ">", "?",
    "@", "A", "B", "C", "D", "E", "F", "G", "H", "I", "J", "K", "L", "M", "N", "O",
    "P", "Q", "R", "S", "T", "U", "V", "W", "X", "Y", "Z", "[", "\\", "]", "^", "_",
    "grave", "a", "b", "c", "d", "e", "f", "g", "h", "i", "j", "k", "l", "m", "n", "o",
    "p", "q", "r", "s", "t", "u", "v", "w", "x", "y", "z", "{", "|", "}", "~">>

\* the code point of a printable ASCII character (the table lists code
\* points 32..126 in order; "grave" stands for the grave accent, 96)
Ord(c) == 31 + CHOOSE k \in 1..95 : AsciiTable[k] = c

\* the string whose characters are listed, e.g. U(<<"h", "i">>)
U(cs) == [i \in 1..Len(cs) |-> Ord(cs[i])]

\* the concatenation of a sequence of strings (by halves, to keep the
\* evaluation shallow)
RECURSIVE Concat(_)
Concat(ss) ==
  IF Len(ss) = 0 THEN <<>>
  ELSE IF Len(ss) = 1 THEN ss[1]
  ELSE LET h == Len(ss) \div 2
       IN  Concat(SubSeq(ss, 1, h)) \o Concat(SubSeq(ss, h + 1, Len(ss)))

\* the first position >= i of s at which c occurs, or 0
IndexFrom(s, c, i) ==
  IF \E j \in i..Len(s) : s[j] = c
  THEN CHOOSE j \in i..Len(s) : s[j] = c /\ \A k \in i..(j - 1) : s[k] # c
  ELSE 0

\* String.prototype.replace(/c/g, d)
ReplaceAll(s, c, d) == [i \in 1..Len(s) |-> IF s[i] = c THEN d ELSE s[i]]

\* String.prototype.replace(/c/g, ""): every c removed
RemoveAll(s, c) == SelectSeq(s, LAMBDA x : x # c)

\* String.prototype.padEnd(n, c)
PadEnd(s, n, c) == IF n <= Len(s) THEN s ELSE s \o [i \in 1..(n - Len(s)) |-> c]

(***************************************************************************)
(* JavaScript values                                                       *)
(***************************************************************************)
Null == [t |-> "null", v |-> 0]
Bool(b) == [t |-> "bool", v |-> b]
Num(n) == [t |-> "num", v |-> n]
Str(s) == [t |-> "str", v |-> s]
Arr(xs) == [t |-> "arr", v |-> xs]
Obj(ps) == [t |-> "obj", v |-> ps]

HasKey(o, k) == o.t = "obj" /\ \E i \in 1..Len(o.v) : o.v[i][1] = k

\* o[k]; only used where HasKey(o, k)
Get(o, k) == o.v[CHOOSE i \in 1..Len(o.v) : o.v[i][1] = k][2]

\* o[k] = x: an existing property keeps its position, a new one is appended
Put(o, k, x) ==
  IF HasKey(o, k)
  THEN Obj([i \in 1..Len(o.v) |-> IF o.v[i][1] = k THEN <<k, x>> ELSE o.v[i]])
  ELSE Obj(Append(o.v, <<k, x>>))

\* truthiness of a value (ToBoolean)
Truthy(x) ==
  CASE x.t = "null" -> FALSE
    [] x.t = "bool" -> x.v
    [] x.t = "num" -> x.v # 0
    [] x.t = "str" -> x.v # <<>>
    [] x.t \in {"undefined", "nan"} -> FALSE
    [] OTHER -> TRUE

Undefined == [t |-> "undefined", v |-> 0]

\* the number NaN
NaN == [t |-> "nan", v |-> 0]

(***************************************************************************)
(* JSON.stringify                                                          *)
(***************************************************************************)
HexDigit(n) == IF n < 10 THEN 48 + n ELSE 87 + n

Hex4(n) ==
  <<HexDigit(n \div 4096), HexDigit((n \div 256) % 16),
    HexDigit((n \div 16) % 16), HexDigit(n % 16)>>

RECURSIVE DigitsOf(_)
DigitsOf(n) == IF n < 10 THEN <<48 + n>> ELSE DigitsOf(n \div 10) \o <<48 + (n % 10)>>

\* Number.prototype.toString for an integer
NumberToString(n) == IF n < 0 THEN <<45>> \o DigitsOf(0 - n) ELSE DigitsOf(n)

\* the JSON escape of one character of a string
EscapeChar(c) ==
  CASE c = 34 -> <<92, 34>>
    [] c = 92 -> <<92, 92>>
    [] c = 8 -> <<92, 98>>
    [] c = 12 -> <<92, 102>>
    [] c = 10 -> <<92, 110>>
    [] c = 13 -> <<92, 114>>
    [] c = 9 -> <<92, 116>>
    [] c < 32 \/ (c >= 55296 /\ c <= 57343) -> <<92, 117>> \o Hex4(c)
    [] OTHER -> <<c>>

QuoteJSONString(s) ==
  <<34>> \o Concat([i \in 1..Len(s) |-> EscapeChar(s[i])]) \o <<34>>

\* Array.prototype.join(sep)
JoinWith(ss, sep) ==
  IF Len(ss) = 0 THEN <<>>
  ELSE Concat([i \in 1..(2 * Len(ss) - 1) |->
                 IF i % 2 = 1 THEN ss[(i + 1) \div 2] ELSE sep])

\* JSON.stringify(x) for a value that is not undefined at the top level;
\* properties whose value is undefined are left out, an undefined array
\* element is written as null
RECURSIVE JSONStringify(_)
JSONStringify(x) ==
  CASE x.t = "null" -> U(<<"n", "u", "l", "l">>)
    [] x.t \in {"undefined", "nan"} -> U(<<"n", "u", "l", "l">>)
    [] x.t = "bool" ->
         IF x.v THEN U(<<"t", "r", "u", "e">>) ELSE U(<<"f", "a", "l", "s", "e">>)
    [] x.t = "num" -> NumberToString(x.v)
    [] x.t = "numtext" -> x.v
    [] x.t = "str" -> QuoteJSONString(x.v)
    [] x.t = "arr" ->
         <<91>> \o JoinWith([i \in 1..Len(x.v) |-> JSONStringify(x.v[i])], <<44>>) \o <<93>>
    [] x.t = "obj" ->
         LET kept == SelectSeq(x.v, LAMBDA p : p[2].t # "undefined")
         IN  <<123>>
             \o JoinWith([i \in 1..Len(kept) |->
                            QuoteJSONString(kept[i][1]) \o <<58>> \o JSONStringify(kept[i][2])],
                         <<44>>)
             \o <<125>>

(***************************************************************************)
(* JSON.parse: a recursive-descent parser of the JSON grammar.  A parse    *)
(* step returns [ok, val, pos]: whether it succeeded, the value, and the   *)
(* position after it.                                                      *)
(***************************************************************************)
ParseFail == [ok |-> FALSE, val |-> Null, pos |-> 0]

ParseOk(x, p) == [ok |-> TRUE, val |-> x, pos |-> p]

IsWs(c) == c \in {32, 9, 10, 13}

IsDigit(c) == c >= 48 /\ c <= 57

IsHex(c) == IsDigit(c) \/ (c >= 97 /\ c <= 102) \/ (c >= 65 /\ c <= 70)

HexVal(c) == IF IsDigit(c) THEN c - 48 ELSE IF c >= 97 THEN c - 87 ELSE c - 55

\* the first position >= i that does not hold white space
SkipWs(s, i) ==
  CHOOSE j \in i..(Len(s) + 1) :
    /\ j = Len(s) + 1 \/ ~IsWs(s[j])
    /\ \A k \in i..(j - 1) : IsWs(s[k])

\* s has the literal lit at position i
Match(s, i, lit) == i + Len(lit) - 1 <= Len(s) /\ SubSeq(s, i, i + Len(lit) - 1) = lit

\* the position after the run of digits that starts at i
SkipDigits(s, i) ==
  IF i > Len(s) THEN i
  ELSE CHOOSE j \in i..(Len(s) + 1) :
         /\ j = Len(s) + 1 \/ ~IsDigit(s[j])
         /\ \A k \in i..(j - 1) : IsDigit(s[k])

RECURSIVE DigitsValue(_)
DigitsValue(ds) ==
  IF ds = <<>> THEN 0
  ELSE 10 * DigitsValue(SubSeq(ds, 1, Len(ds) - 1)) + (ds[Len(ds)] - 48)

\* \uXXXX at position i (the position of the backslash): its value, or -1
UnicodeEscape(s, i) ==
  IF i + 5 <= Len(s) /\ s[i] = 92 /\ s[i + 1] = 117
     /\ \A k \in 2..5 : IsHex(s[i + k])
  THEN 4096 * HexVal(s[i + 2]) + 256 * HexVal(s[i + 3])
       + 16 * HexVal(s[i + 4]) + HexVal(s[i + 5])
  ELSE -1

\* the number of backslashes in a row that end just before position j
BackslashRun(s, j) ==
  CHOOSE n \in 0..(j - 1) :
    /\ n = j - 1 \/ s[j - 1 - n] # 92
    /\ \A q \in (j - n)..(j - 1) : s[q] = 92

\* position k of s starts an escape sequence of a string literal
EscapeStart(s, k) == k >= 1 /\ k <= Len(s) /\ s[k] = 92 /\ BackslashRun(s, k) % 2 = 0

IsHighSurrogate(n) == n >= 55296 /\ n <= 56319

IsLowSurrogate(n) == n >= 56320 /\ n <= 57343

\* what position k of the content c of a string literal contributes to the
\* string: <<ok, characters>>
StringPiece(c, k) ==
  IF EscapeStart(c, k)
  THEN LET e == c[k + 1]
       IN  CASE e \in {34, 92, 47} -> <<TRUE, <<e>>>>
             [] e = 98 -> <<TRUE, <<8>>>>
             [] e = 102 -> <<TRUE, <<12>>>>
             [] e = 110 -> <<TRUE, <<10>>>>
             [] e = 114 -> <<TRUE, <<13>>>>
             [] e = 116 -> <<TRUE, <<9>>>>
             [] e = 117 ->
                  LET u == UnicodeEscape(c, k)
                      lo == UnicodeEscape(c, k + 6)
                      hi == IF k > 6 /\ EscapeStart(c, k - 6)
                            THEN UnicodeEscape(c, k - 6) ELSE -1
                  IN  IF u < 0 THEN <<FALSE, <<>>>>
                      ELSE IF IsHighSurrogate(u) /\ IsLowSurrogate(lo)
                      THEN <<TRUE, <<65536 + 1024 * (u - 55296) + (lo - 56320)>>>>
                      ELSE IF IsLowSurrogate(u) /\ IsHighSurrogate(hi)
                      THEN <<TRUE, <<>>>>
                      ELSE <<TRUE, <<u>>>>
             [] OTHER -> <<FALSE, <<>>>>
  ELSE IF EscapeStart(c, k - 1) THEN <<TRUE, <<>>>>
  ELSE IF \E d \in 2..5 : EscapeStart(c, k - d) /\ c[k - d + 1] = 117 THEN <<TRUE, <<>>>>
  ELSE IF c[k] < 32 THEN <<FALSE, <<>>>>
  ELSE <<TRUE, <<c[k]>>>>

\* the string literal whose opening quote is at position i: it ends at the
\* first quote that is not escaped
ParseString(s, i) ==
  LET closing == {j \in (i + 1)..Len(s) : s[j] = 34 /\ BackslashRun(s, j) % 2 = 0}
  IN  IF closing = {} THEN ParseFail
      ELSE LET j == CHOOSE x \in closing : \A y \in closing : x <= y
               c == SubSeq(s, i + 1, j - 1)
               pieces == [k \in 1..Len(c) |-> StringPiece(c, k)]
           IN  IF \E k \in 1..Len(c) : ~pieces[k][1] THEN ParseFail
               ELSE ParseOk(Str(Concat([k \in 1..Len(c) |-> pieces[k][2]])), j + 1)

\* a number at position i: -? (0 | [1-9][0-9]*) (. [0-9]+)? ([eE] [+-]? [0-9]+)?
ParseNumber(s, i) ==
  LET neg == s[i] = 45
      a == IF neg THEN i + 1 ELSE i
      b == SkipDigits(s, a)
      intOk == b > a /\ (s[a] # 48 \/ b = a + 1)
      hasFrac == b <= Len(s) /\ s[b] = 46
      c == IF hasFrac THEN SkipDigits(s, b + 1) ELSE b
      fracOk == ~hasFrac \/ c > b + 1
      hasExp == c <= Len(s) /\ s[c] \in {101, 69}
      d == IF hasExp /\ c + 1 <= Len(s) /\ s[c + 1] \in {43, 45} THEN c + 2 ELSE c + 1
      e == IF hasExp THEN SkipDigits(s, d) ELSE c
      expOk == ~hasExp \/ e > d
  IN  IF ~(intOk /\ fracOk /\ expOk) THEN ParseFail
      ELSE IF hasFrac \/ hasExp
      THEN ParseOk([t |-> "numtext", v |-> SubSeq(s, i, e - 1)], e)
      ELSE LET n == DigitsValue(SubSeq(s, a, b - 1))
           IN  ParseOk(Num(IF neg THEN 0 - n ELSE n), b)

RECURSIVE ParseValue(_, _), ParseElements(_, _, _), ParseMembers(_, _, _)

\* after an element: "," continues the array with acc, "]" ends it
ElementSeparator(s, j, acc) ==
  IF j > Len(s) THEN ParseFail
  ELSE IF s[j] = 44 THEN ParseElements(s, j + 1, acc)
  ELSE IF s[j] = 93 THEN ParseOk(Arr(acc), j + 1)
  ELSE ParseFail

\* the element read as r joins the elements acc read before it
ElementRead(s, r, acc) ==
  IF ~r.ok THEN ParseFail
  ELSE ElementSeparator(s, SkipWs(s, r.pos), Append(acc, r.val))

\* the elements of an array after "[" or ",", acc being those read so far
ParseElements(s, i, acc) == ElementRead(s, ParseValue(s, i), acc)

\* after a member: "," continues the object acc, "}" ends it
MemberSeparator(s, j, acc) ==
  IF j > Len(s) THEN ParseFail
  ELSE IF s[j] = 44 THEN ParseMembers(s, j + 1, acc)
  ELSE IF s[j] = 125 THEN ParseOk(acc, j + 1)
  ELSE ParseFail

\* the value read as r becomes the member of acc named by key
MemberRead(s, key, r, acc) ==
  IF ~r.ok THEN ParseFail
  ELSE MemberSeparator(s, SkipWs(s, r.pos), Put(acc, key.val.v, r.val))

\* after the key of a member: ":" at position c and then its value
MemberValue(s, key, c, acc) ==
  IF key.ok /\ c <= Len(s) /\ s[c] = 58
  THEN MemberRead(s, key, ParseValue(s, c + 1), acc)
  ELSE ParseFail

\* the key read as key, then the rest of the member
MemberKey(s, key, acc) ==
  IF ~key.ok THEN ParseFail
  ELSE MemberValue(s, key, SkipWs(s, key.pos), acc)

\* a member starts with a string at position k
MemberAt(s, k, acc) ==
  IF k <= Len(s) /\ s[k] = 34 THEN MemberKey(s, ParseString(s, k), acc)
  ELSE ParseFail

\* the members of an object after "{" or ",", acc being the object so far
ParseMembers(s, i, acc) == MemberAt(s, SkipWs(s, i), acc)

NullText == U(<<"n", "u", "l", "l">>)
TrueText == U(<<"t", "r", "u", "e">>)
FalseText == U(<<"f", "a", "l", "s", "e">>)

\* an object whose "{" is at position j, k being the next position that is
\* not white space
ObjectAt(s, j, k) ==
  IF k <= Len(s) /\ s[k] = 125 THEN ParseOk(Obj(<<>>), k + 1)
  ELSE ParseMembers(s, j + 1, Obj(<<>>))

\* an array whose "[" is at position j
ArrayAt(s, j, k) ==
  IF k <= Len(s) /\ s[k] = 93 THEN ParseOk(Arr(<<>>), k + 1)
  ELSE ParseElements(s, j + 1, <<>>)

\* the value that starts at position j, which is not white space
ValueAt(s, j) ==
  IF j > Len(s) THEN ParseFail
  ELSE CASE s[j] = 123 -> ObjectAt(s, j, SkipWs(s, j + 1))
         [] s[j] = 91 -> ArrayAt(s, j, SkipWs(s, j + 1))
         [] s[j] = 34 -> ParseString(s, j)
         [] s[j] = 45 \/ IsDigit(s[j]) -> ParseNumber(s, j)
         [] Match(s, j, NullText) -> ParseOk(Null, j + 4)
         [] Match(s, j, TrueText) -> ParseOk(Bool(TRUE), j + 4)
         [] Match(s, j, FalseText) -> ParseOk(Bool(FALSE), j + 5)
         [] OTHER -> ParseFail

ParseValue(s, i) == ValueAt(s, SkipWs(s, i))

\* the text is one value and white space
WholeText(s, r) ==
  IF r.ok /\ SkipWs(s, r.pos) > Len(s)
  THEN [ok |-> TRUE, val |-> r.val]
  ELSE [ok |-> FALSE, val |-> Null]

\* JSON.parse(s): [ok |-> FALSE] stands for the SyntaxError it throws
JSONParse(s) == WholeText(s, ParseValue(s, 1))

(***************************************************************************)
(* Buffer.from(string): UTF-8 encoding                                     *)
(***************************************************************************)
Utf8EncodeChar(c) ==
  IF c < 128 THEN <<c>>
  ELSE IF c < 2048 THEN <<192 + (c \div 64), 128 + (c % 64)>>
  ELSE IF c >= 55296 /\ c <= 57343 THEN <<239, 191, 189>>
  ELSE IF c < 65536
  THEN <<224 + (c \div 4096), 128 + ((c \div 64) % 64), 128 + (c % 64)>>
  ELSE <<240 + (c \div 262144), 128 + ((c \div 4096) % 64),
         128 + ((c \div 64) % 64), 128 + (c % 64)>>

Utf8Encode(s) == Concat([i \in 1..Len(s) |-> Utf8EncodeChar(s[i])])

(***************************************************************************)
(* Buffer.prototype.toString(): UTF-8 decoding; every maximal ill-formed   *)
(* subsequence becomes one U+FFFD, nothing is thrown                       *)
(***************************************************************************)
ReplacementChar == 65533

IsCont(bs, i, lo, hi) == i <= Len(bs) /\ bs[i] >= lo /\ bs[i] <= hi

IsContinuationByte(b) == b >= 128 /\ b <= 191

\* how many bytes must follow the lead byte b (0 for ASCII and for bytes
\* that cannot start a character)
Utf8Need(b) ==
  IF b >= 194 /\ b <= 223 THEN 1
  ELSE IF b >= 224 /\ b <= 239 THEN 2
  ELSE IF b >= 240 /\ b <= 244 THEN 3
  ELSE 0

\* how many of the bytes after position i continue the character that the
\* byte at i starts: the second byte has a narrower range after E0, ED, F0
\* and F4
Utf8Taken(bs, i) ==
  LET b == bs[i]
      lo == IF b = 224 THEN 160 ELSE IF b = 240 THEN 144 ELSE 128
      hi == IF b = 237 THEN 159 ELSE IF b = 244 THEN 143 ELSE 191
      need == Utf8Need(b)
  IN  IF need = 0 \/ ~IsCont(bs, i + 1, lo, hi) THEN 0
      ELSE IF need = 1 \/ ~IsCont(bs, i + 2, 128, 191) THEN 1
      ELSE IF need = 2 \/ ~IsCont(bs, i + 3, 128, 191) THEN 2
      ELSE 3

\* the character decoded at the byte at position i: a complete character,
\* U+FFFD for an ill-formed sequence, nothing for a byte taken by the
\* character that starts before it
Utf8Piece(bs, i) ==
  LET b == bs[i]
  IN  IF IsContinuationByte(b)
      THEN IF \E d \in 1..3 :
                /\ i - d >= 1
                /\ \A e \in 1..(d - 1) : IsContinuationByte(bs[i - e])
                /\ ~IsContinuationByte(bs[i - d])
                /\ Utf8Taken(bs, i - d) >= d
           THEN <<>>
           ELSE <<ReplacementChar>>
      ELSE IF b < 128 THEN <<b>>
      ELSE IF Utf8Need(b) = 0 \/ Utf8Taken(bs, i) < Utf8Need(b) THEN <<ReplacementChar>>
      ELSE IF Utf8Need(b) = 1 THEN <<(b - 192) * 64 + (bs[i + 1] - 128)>>
      ELSE IF Utf8Need(b) = 2
      THEN <<(b - 224) * 4096 + (bs[i + 1] - 128) * 64 + (bs[i + 2] - 128)>>
      ELSE <<(b - 240) * 262144 + (bs[i + 1] - 128) * 4096
             + (bs[i + 2] - 128) * 64 + (bs[i + 3] - 128)>>

Utf8Decode(bs) == Concat([i \in 1..Len(bs) |-> Utf8Piece(bs, i)])

\* the bytes are well-formed UTF-8
ValidUtf8(bs) == Utf8Encode(Utf8Decode(bs)) = bs

(***************************************************************************)
(* base64                                                                  *)
(***************************************************************************)
Base64Chars ==
  U(<<"A", "B", "C", "D", "E", "F", "G", "H", "I", "J", "K", "L", "M", "N", "O", "P",
      "Q", "R", "S", "T", "U", "V", "W", "X", "Y", "Z", "a", "b", "c", "d", "e", "f",
      "g", "h", "i", "j", "k", "l", "m", "n", "o", "p", "q", "r", "s", "t", "u", "v",
      "w", "x", "y", "z", "0", "1", "2", "3", "4", "5", "6", "7", "8", "9", "+", "/">>)

Plus == 43
Slash == 47
Minus == 45
Underscore == 95
Equals == 61

\* the byte at position i, 0 past the end
ByteAt(bs, i) == IF i <= Len(bs) THEN bs[i] ELSE 0

\* Buffer.prototype.toString('base64'): character j of the output comes
\* from the 3-byte group (j - 1) \div 4; a group cut short by the end of the
\* input is padded with "="
Base64Encode(bs) ==
  [j \in 1..(4 * ((Len(bs) + 2) \div 3)) |->
     LET g == 3 * ((j - 1) \div 4)
         b1 == ByteAt(bs, g + 1)
         b2 == ByteAt(bs, g + 2)
         b3 == ByteAt(bs, g + 3)
     IN  CASE j % 4 = 1 -> Base64Chars[(b1 \div 4) + 1]
           [] j % 4 = 2 -> Base64Chars[(b1 % 4) * 16 + (b2 \div 16) + 1]
           [] j % 4 = 3 ->
                IF g + 2 > Len(bs) THEN Equals
                ELSE Base64Chars[(b2 % 16) * 4 + (b3 \div 64) + 1]
           [] OTHER ->
                IF g + 3 > Len(bs) THEN Equals ELSE Base64Chars[(b3 % 64) + 1]]

\* the 6-bit value of a base64 character, -1 for any other character; the
\* decoder reads the URL-safe characters "-" and "_" as 62 and 63 too
Unbase64(c) ==
  IF c = Minus THEN 62
  ELSE IF c = Underscore THEN 63
  ELSE IF \E k \in 1..64 : Base64Chars[k] = c
  THEN (CHOOSE k \in 1..64 : Base64Chars[k] = c) - 1
  ELSE -1

\* the bytes of a run of 6-bit values: 4 values give 3 bytes, a last group
\* of 2 or 3 values gives 1 or 2 bytes, a single last value gives none
DecodeSextets(xs) ==
  [k \in 1..((Len(xs) * 6) \div 8) |->
     LET g == 4 * ((k - 1) \div 3)
     IN  CASE k % 3 = 1 -> xs[g + 1] * 4 + (xs[g + 2] \div 16)
           [] k % 3 = 2 -> (xs[g + 2] % 16) * 16 + (xs[g + 3] \div 4)
           [] OTHER -> (xs[g + 3] % 4) * 64 + xs[g + 4]]

\* Buffer.from(s, 'base64'): never throws; decoding stops at the first "=",
\* characters outside the alphabet are skipped, and a trailing group of 2 or
\* 3 characters gives 1 or 2 bytes
Base64Decode(s) ==
  LET stop == IndexFrom(s, Equals, 1)
      body == IF stop = 0 THEN s ELSE SubSeq(s, 1, stop - 1)
      legal == SelectSeq(body, LAMBDA c : Unbase64(c) >= 0)
  IN  DecodeSextets([i \in 1..Len(legal) |-> Unbase64(legal[i])])

\* s is canonical padded base64: a multiple of 4 alphabet characters, with
\* "=" only as the last one or two characters, and no stray bits
ValidBase64(s) ==
  /\ Len(s) % 4 = 0
  /\ Base64Encode(Base64Decode(s)) = s

(***************************************************************************)
(* The codec                                                               *)
(***************************************************************************)
\* encodeIntention with the two replacements crossed ("+" to "_", "/" to "-")
EncodeIntentionCrossed(data) ==
  LET jsonString == JSONStringify(data)
      base64 == Base64Encode(Utf8Encode(jsonString))
  IN  RemoveAll(ReplaceAll(ReplaceAll(base64, Plus, Underscore), Slash, Minus), Equals)

\* encodeIntention without the removal of the padding
EncodeIntentionPadded(data) ==
  LET jsonString == JSONStringify(data)
      base64 == Base64Encode(Utf8Encode(jsonString))
  IN  ReplaceAll(ReplaceAll(base64, Plus, Minus), Slash, Underscore)

\* encodeIntention(data).  JSON.stringify throws only for values (cycles,
\* BigInt) that the value model above does not contain, so the catch branch
\* is never taken here.
EncodeIntention(data) ==
  LET jsonString == JSONStringify(data)
      base64 == Base64Encode(Utf8Encode(jsonString))
  IN  RemoveAll(ReplaceAll(ReplaceAll(base64, Plus, Minus), Slash, Underscore), Equals)

\* the unpadded URL-safe base64 of a byte string: how a token is made by
\* hand, with any tool, from arbitrary bytes
TokenOfBytes(bs) ==
  RemoveAll(ReplaceAll(ReplaceAll(Base64Encode(bs), Plus, Minus), Slash, Underscore), Equals)

\* the padded standard-alphabet string decodeIntention hands to the decoder
PaddedBase64(payload) ==
  PadEnd(ReplaceAll(ReplaceAll(payload, Minus, Plus), Underscore, Slash),
         Len(payload) + ((4 - (Len(payload) % 4)) % 4), Equals)

\* the text decodeIntention parses
DecodedText(payload) == Utf8Decode(Base64Decode(PaddedBase64(payload)))

\* decodeIntention(payload): [ok |-> FALSE] stands for the thrown
\* Error('Failed to decode intention data')
\* the decoded text: the empty text is refused, any other is parsed
ParseIntention(jsonString) ==
  IF jsonString = <<>> THEN [ok |-> FALSE, val |-> Null]
  ELSE JSONParse(jsonString)

DecodeIntention(payload) == ParseIntention(DecodedText(payload))

(***************************************************************************)
(* Dates.  new Date(x).getTime() gives a time value [nan, ms]: nan for an  *)
(* Invalid Date, else ms after the model epoch.                            *)
(***************************************************************************)
\* local midnight of this date is clock reading 0
EpochDate == [year |-> 2025, month |-> 8, day |-> 11]

MsPerDay == 86400000
MsPerHour == 3600000
MsPerMinute == 60000
MsPerSecond == 1000

NaNTime == [nan |-> TRUE, ms |-> 0]

TimeOf(n) == [nan |-> FALSE, ms |-> n]

IsLeapYear(y) == (y % 4 = 0 /\ y % 100 # 0) \/ y % 400 = 0

DaysInMonth(y, m) ==
  IF m = 2 THEN (IF IsLeapYear(y) THEN 29 ELSE 28)
  ELSE IF m \in {4, 6, 9, 11} THEN 30 ELSE 31

\* days from 1970-01-01 to the civil date y-m-d
DaysFromCivil(y, m, d) ==
  LET yy == IF m <= 2 THEN y - 1 ELSE y
      era == yy \div 400
      yoe == yy - era * 400
      mp == IF m > 2 THEN m - 3 ELSE m + 9
      doy == ((153 * mp + 2) \div 5) + d - 1
      doe == yoe * 365 + (yoe \div 4) - (yoe \div 100) + doy
  IN  era * 146097 + doe - 719468

AllDigits(s, from, to) == \A i \in from..to : IsDigit(s[i])

\* Date parsing of the date-time forms "YYYY-MM-DDTHH:mm" (what the form's
\* datetime-local input and toISOString().slice(0, 16) produce) and
\* "YYYY-MM-DDTHH:mm:ss", read as local time; any other string of the
\* model's input sets is not a date in JavaScript either
DateParse(s) ==
  IF /\ Len(s) \in {16, 19}
     /\ AllDigits(s, 1, 4) /\ s[5] = 45 /\ AllDigits(s, 6, 7) /\ s[8] = 45
     /\ AllDigits(s, 9, 10) /\ s[11] = 84 /\ AllDigits(s, 12, 13) /\ s[14] = 58
     /\ AllDigits(s, 15, 16)
     /\ (Len(s) = 19 => s[17] = 58 /\ AllDigits(s, 18, 19))
  THEN LET y == DigitsValue(SubSeq(s, 1, 4))
           m == DigitsValue(SubSeq(s, 6, 7))
           d == DigitsValue(SubSeq(s, 9, 10))
           h == DigitsValue(SubSeq(s, 12, 13))
           mi == DigitsValue(SubSeq(s, 15, 16))
           sec == IF Len(s) = 19 THEN DigitsValue(SubSeq(s, 18, 19)) ELSE 0
       IN  IF /\ m >= 1 /\ m <= 12 /\ d >= 1 /\ d <= DaysInMonth(y, m)
              /\ (h <= 23 \/ (h = 24 /\ mi = 0 /\ sec = 0)) /\ mi <= 59 /\ sec <= 59
           THEN TimeOf((DaysFromCivil(y, m, d)
                        - DaysFromCivil(EpochDate.year, EpochDate.month, EpochDate.day))
                       * MsPerDay
                       + h * MsPerHour + mi * MsPerMinute + sec * MsPerSecond)
           ELSE NaNTime
  ELSE NaNTime

\* new Date(x).getTime() for a property value x; in every intention of the
\* model when is a string or missing (undefined gives an Invalid Date)
DateGetTime(x) == IF x.t = "str" THEN DateParse(x.v) ELSE NaNTime

\* o.k, undefined when o has no such property
Field(o, k) == IF HasKey(o, k) THEN Get(o, k) ELSE Undefined

KeyWhat == U(<<"w", "h", "a", "t">>)
KeyWhen == U(<<"w", "h", "e", "n">>)
KeyWhere == U(<<"w", "h", "e", "r", "e">>)
KeyNote == U(<<"n", "o", "t", "e">>)
KeyCreatedAt == U(<<"c", "r", "e", "a", "t", "e", "d", "A", "t">>)

(***************************************************************************)
(* Temporal policy                                                         *)
(***************************************************************************)
TwoHoursInMs == 2 * 60 * 60 * 1000

OneHourInMs == 60 * 60 * 1000

\* isIntentionExpired with >= for >
IsIntentionExpiredInclusive(intention, now) ==
  LET eventTime == DateGetTime(Field(intention, KeyWhen))
  IN  ~eventTime.nan /\ now >= eventTime.ms + TwoHoursInMs

\* isIntentionExpired with the comparison turned round
IsIntentionExpiredFlipped(intention, now) ==
  LET eventTime == DateGetTime(Field(intention, KeyWhen))
  IN  ~eventTime.nan /\ now < eventTime.ms + TwoHoursInMs

\* isIntentionExpired(intention) when Date.now() reads now; a comparison
\* with NaN is false
IsIntentionExpired(intention, now) ==
  LET eventTime == DateGetTime(Field(intention, KeyWhen))
  IN  ~eventTime.nan /\ now > eventTime.ms + TwoHoursInMs

Comma == 44

\* String.prototype.split(','): the pieces between consecutive commas
Split(s) ==
  LET commas == {i \in 1..Len(s) : s[i] = Comma}
      \* the position of the n-th comma; 0 and Len(s) + 1 bound the string
      nth(n) == IF n = 0 THEN 0
                ELSE IF n > Cardinality(commas) THEN Len(s) + 1
                ELSE CHOOSE p \in commas : Cardinality({q \in commas : q < p}) = n - 1
  IN  [n \in 1..(Cardinality(commas) + 1) |-> SubSeq(s, nth(n - 1) + 1, nth(n) - 1)]

\* slice(0, 2) for slice(-2)
SliceFirstTwo(parts) == IF Len(parts) <= 2 THEN parts ELSE SubSeq(parts, 1, 2)

\* Array.prototype.slice(-2)
SliceLastTwo(parts) ==
  IF Len(parts) <= 2 THEN parts ELSE SubSeq(parts, Len(parts) - 1, Len(parts))

\* the characters String.prototype.trim removes
WhiteSpace ==
  {9, 10, 11, 12, 13, 32, 160, 5760, 8232, 8233, 8239, 8287, 12288, 65279}
  \cup 8192..8202

RECURSIVE TrimStart(_)
TrimStart(s) ==
  IF s # <<>> /\ s[1] \in WhiteSpace THEN TrimStart(Tail(s)) ELSE s

RECURSIVE TrimEnd(_)
TrimEnd(s) ==
  IF s # <<>> /\ s[Len(s)] \in WhiteSpace THEN TrimEnd(SubSeq(s, 1, Len(s) - 1)) ELSE s

Trim(s) == TrimEnd(TrimStart(s))

\* getLocationPrecision with >= for >
GetLocationPrecisionInclusive(intention, now) ==
  LET where == Field(intention, KeyWhere)
      eventTime == DateGetTime(Field(intention, KeyWhen))
      parts == Split(where.v)
  IN  IF ~Truthy(where) THEN <<>>
      ELSE IF ~eventTime.nan /\ eventTime.ms - now >= OneHourInMs /\ Len(parts) > 1
      THEN Trim(JoinWith(SliceLastTwo(parts), <<Comma>>))
      ELSE where.v

\* getLocationPrecision(intention) when Date.now() reads now; in every
\* intention of the model where is a string or missing
GetLocationPrecision(intention, now) ==
  LET where == Field(intention, KeyWhere)
      eventTime == DateGetTime(Field(intention, KeyWhen))
      parts == Split(where.v)
  IN  IF ~Truthy(where) THEN <<>>
      ELSE IF ~eventTime.nan /\ eventTime.ms - now > OneHourInMs /\ Len(parts) > 1
      THEN Trim(JoinWith(SliceLastTwo(parts), <<Comma>>))
      ELSE where.v

(***************************************************************************)
(* localStorage and the interaction store.  The store is a function from   *)
(* keys to values, both strings.                                           *)
(***************************************************************************)
EmptyStore == <<>>

\* localStorage.getItem(k): null when there is no such entry
GetItem(st, k) == IF k \in DOMAIN st THEN Str(st[k]) ELSE Null

\* localStorage.setItem(k, x)
SetItem(st, k, x) == [y \in DOMAIN st \cup {k} |-> IF y = k THEN x ELSE st[y]]

StatsPrefix ==
  U(<<"a", "m", "b", "i", "e", "n", "t", "_", "s", "t", "a", "t", "s", "_">>)

\* the user-choice key built with the prefix of the stats key
UserPrefixSame == StatsPrefix

UserPrefix ==
  U(<<"a", "m", "b", "i", "e", "n", "t", "_", "u", "s", "e", "r", "_">>)

\* the key of the creator's list of links
MyVibesKey == U(<<"m", "y", "-", "v", "i", "b", "e", "s">>)

\* getStorageKey(payload)
GetStorageKey(p) == StatsPrefix \o p

\* the key of the user-choice marker, `ambient_user_${payload}`
UserChoiceKey(p) == UserPrefix \o p

Interested == U(<<"i", "n", "t", "e", "r", "e", "s", "t", "e", "d">>)

Here == U(<<"h", "e", "r", "e">>)

\* { interested: 0, here: 0 }
ZeroStats == Obj(<<<<Interested, Num(0)>>, <<Here, Num(0)>>>>)

\* the catch branch of getIntentionStats gives the zero stats
ParsedStats(parsed) == IF parsed.ok THEN parsed.val ELSE ZeroStats

\* getIntentionStats without the default for a token that has no entry
StoredStatsNoDefault(stored) ==
  IF Truthy(stored) THEN ParsedStats(JSONParse(stored.v)) ELSE Null

\* stored ? JSON.parse(stored) : { interested: 0, here: 0 }
StoredStats(stored) ==
  IF Truthy(stored) THEN ParsedStats(JSONParse(stored.v)) ELSE ZeroStats

\* getIntentionStats(payload) in the browser: whatever the stored text
\* parses to, the zero stats when nothing is stored or it does not parse
GetIntentionStats(st, p) == StoredStats(GetItem(st, GetStorageKey(p)))

\* x + 1 for a property value x
AddOne(x) ==
  CASE x.t = "num" -> Num(x.v + 1)
    [] x.t = "null" -> Num(1)
    [] x.t = "bool" -> Num(IF x.v THEN 2 ELSE 1)
    [] x.t = "str" -> Str(x.v \o <<49>>)
    [] OTHER -> NaN

\* updateIntentionStats writing under the user-choice key of the token
SaveStatsElsewhere(st, p, updated) ==
  [ok |-> TRUE,
   store |-> SetItem(st, UserChoiceKey(p), JSONStringify(updated)),
   stats |-> updated]

\* localStorage.setItem(getStorageKey(payload), JSON.stringify(stats))
SaveStats(st, p, updated) ==
  [ok |-> TRUE,
   store |-> SetItem(st, GetStorageKey(p), JSONStringify(updated)),
   stats |-> updated]

\* stats[type] += 1 and the write of the result.  The module is strict
\* code: the assignment throws a TypeError on null and on a primitive
\* (number, string, boolean).  On an array it sets a property that
\* JSON.stringify leaves out, so the array is written back as it was.
IncrementStats(st, p, type, stats) ==
  IF stats.t = "obj"
  THEN SaveStats(st, p, Put(stats, type, AddOne(Field(stats, type))))
  ELSE IF stats.t = "arr" THEN SaveStats(st, p, stats)
  ELSE [ok |-> FALSE, store |-> st, stats |-> stats]

\* updateIntentionStats(payload, type): [ok, store, stats], the store after
\* the call and the returned stats; ok is FALSE when stats[type] += 1 throws
\* a TypeError (the stored text parsed to something that is not an object),
\* and then nothing was written
UpdateIntentionStats(st, p, type) ==
  IncrementStats(st, p, type, GetIntentionStats(st, p))

(***************************************************************************)
(* Bounds and input sets                                                   *)
(***************************************************************************)
\* the clock runs over the half-hours 0..MaxHalfHours after the epoch, and
\* the millisecond before and after each
MaxHalfHours == 14

\* number of IntentionDisplay page instances a viewer may have open
MaxPages == 2

HalfHourInMs == 30 * 60 * 1000

Instants ==
  {t \in {k * HalfHourInMs + e : k \in 0..MaxHalfHours, e \in {-1, 0, 1}} : t >= 0}

\* "2025-08-11T03:00"
When0300 ==
  U(<<"2", "0", "2", "5", "-", "0", "8", "-", "1", "1", "T", "0", "3", ":", "0", "0">>)

\* "2025-08-11T04:30:00"
When0430 ==
  U(<<"2", "0", "2", "5", "-", "0", "8", "-", "1", "1", "T", "0", "4", ":", "3", "0",
      ":", "0", "0">>)

\* "soon": not a date
WhenSoon == U(<<"s", "o", "o", "n">>)

\* the instant each when of the input sets denotes, written down by hand
WhenTable ==
  (When0300 :> TimeOf(3 * MsPerHour))
  @@ (When0430 :> TimeOf(4 * MsPerHour + 30 * MsPerMinute))
  @@ (WhenSoon :> NaNTime)

\* "go?", "hm>" and "caf<e-acute> ~": with the serialization's 9-character
\* prefix the third character of what ends a 3-byte group, so "?" and ">"
\* give "/" and "+" in standard base64
WhatGo == U(<<"g", "o", "?">>)
WhatHm == U(<<"h", "m", ">">>)
WhatCafe == U(<<"c", "a", "f">>) \o <<233>> \o U(<<" ", "~">>)

\* "Dolores Park"
WhereDolores == U(<<"D", "o", "l", "o", "r", "e", "s", " ", "P", "a", "r", "k">>)

\* "Blue Bottle Coffee, Mission District, San Francisco"
WhereBlueBottle ==
  U(<<"B", "l", "u", "e", " ", "B", "o", "t", "t", "l", "e", " ", "C", "o", "f", "f",
      "e", "e", ",", " ", "M", "i", "s", "s", "i", "o", "n", " ", "D", "i", "s", "t",
      "r", "i", "c", "t", ",", " ", "S", "a", "n", " ", "F", "r", "a", "n", "c", "i",
      "s", "c", "o">>)

\* "Pier 7 , SF ": two segments, blanks around them
WherePier == U(<<"P", "i", "e", "r", " ", "7", " ", ",", " ", "S", "F", " ">>)

\* "a,b,,": empty trailing segments
WhereCommas == U(<<"a", ",", "b", ",", ",">>)

\* note "say \"hi\"\n": quotes and a line feed, which the serialization escapes
NoteQuote == U(<<"s", "a", "y", " ", "\"", "h", "i", "\"">>) \o <<10>>

\* note "c:\\ <euro>": a backslash and a 3-byte character
NoteEuro == U(<<"c", ":", "\\", " ">>) \o <<8364>>

Whats == {WhatGo, WhatHm, WhatCafe}
Whens == {When0300, When0430}
Wheres == {WhereDolores, WhereBlueBottle}
Notes == {NoteQuote, NoteEuro}
CreatedAts == {0, 7, 1234567}

\* the object literal { what, when, where?, note?, createdAt }: optional
\* fields are those wh and nt that are not <<>> (the empty tuple marks
\* "no such property", <<s>> carries the string s)
MakeIntention(w, t, wh, nt, c) ==
  Obj(<<<<KeyWhat, Str(w)>>, <<KeyWhen, Str(t)>>>>
      \o (IF wh = <<>> THEN <<>> ELSE <<<<KeyWhere, Str(wh[1])>>>>)
      \o (IF nt = <<>> THEN <<>> ELSE <<<<KeyNote, Str(nt[1])>>>>)
      \o <<<<KeyCreatedAt, Num(c)>>>>)

Optional(S) == {<<>>} \cup {<<x>> : x \in S}

\* the valid intentions the codec is exercised on
ValidIntentions ==
  {MakeIntention(w, t, wh, nt, c) :
     w \in Whats, t \in Whens, wh \in Optional(Wheres), nt \in Optional(Notes),
     c \in CreatedAts}

\* texts that somebody may encode by hand into a link: JSON that is not an
\* intention record, and text that is not JSON
RawTexts ==
  { U(<<"n", "u", "l", "l">>),
    U(<<"{", "}">>),
    U(<<"[", "]">>),
    U(<<"1">>),
    U(<<"\"", "x", "\"">>),
    U(<<"{", "\"", "w", "h", "a", "t", "\"", ":", "\"", "g", "o", "?", "\"", "}">>),
    U(<<"{", "\"", "w", "h", "e", "n", "\"", ":", "1", ",", "\"", "n", "o", "t", "e",
        "\"", ":", "n", "u", "l", "l", "}">>),
    U(<<"{", "w", "h", "a", "t">>),
    U(<<"h", "e", "l", "l", "o">>) }

\* byte strings that are not UTF-8: a lone 0xFF, and {"what":"<0xFF>","when":"x"}
RawBytes ==
  { <<255>>,
    Utf8Encode(U(<<"{", "\"", "w", "h", "a", "t", "\"", ":", "\"">>)) \o <<255>>
      \o Utf8Encode(U(<<"\"", ",", "\"", "w", "h", "e", "n", "\"", ":", "\"", "x", "\"", "}">>)) }

\* payloads typed into the address bar: the tokens of the texts and bytes
\* above, the empty payload, and strings that are not base64
\* ("WzEs!MiwzXQ", "bnVs*bA", "a", "e30=e30")
RawPayloads ==
  {TokenOfBytes(Utf8Encode(x)) : x \in RawTexts}
  \cup {TokenOfBytes(b) : b \in RawBytes}
  \cup { <<>>,
         U(<<"W", "z", "E", "s", "!", "M", "i", "w", "z", "X", "Q">>),
         U(<<"b", "n", "V", "s", "*", "b", "A">>),
         U(<<"a">>),
         U(<<"e", "3", "0", "=", "e", "3", "0">>) }

\* the links the viewer has been sent: link 1 is for 03:00, link 2 for 04:30
Links ==
  { EncodeIntention(MakeIntention(WhatGo, When0300, <<WhereDolores>>, <<>>, 0)),
    EncodeIntention(MakeIntention(WhatHm, When0430, <<>>, <<>>, 7)) }

\* characters that corrupt a token: "!" is outside the base64 alphabet, "="
\* is padding in the wrong place
CorruptChars == {33, Equals}

(***************************************************************************)
(* State                                                                   *)
(***************************************************************************)
VARIABLES
  input,        \* codec: the intention handed to encodeIntention, or Undefined
  payload,      \* codec: the token / the payload handed to decodeIntention
  result,       \* codec: what decodeIntention gave, [ok, val]
  phase,        \* codec: "start", "token", "decoded"; "idle" elsewhere
  intention,    \* policy: the intention the policy functions are applied to
  now,          \* the clock, Date.now()
  obs,          \* policy: <<>>, or <<[at, expired, location]>>: the clock
                \* reading at the last evaluation and what isIntentionExpired
                \* and getLocationPrecision returned; stats: <<>>, or
                \* <<[op, token, kind, ok, stats]>>: the last stats call that
                \* ended and what it returned (ok is FALSE when it threw);
                \* pages: the localStorage calls of the last run of
                \* handleInteraction, in order
  store,        \* the viewer's localStorage
  pages,        \* the viewer's IntentionDisplay page instances: for each,
                \* [open, payload, intention, stats, hasInteracted, isExpired]
  calls,        \* stats: for each caller of updateIntentionStats, the call
                \* in flight: [pc, token, kind, stats]
  done,         \* stats: how many updateIntentionStats calls have returned,
                \* for each token and kind
  home,         \* the creator's Home page: [open, createdUrl, savedVibes,
                \* showMyVibes, confirmationData]
  form          \* the IntentionForm of the Home page: [what, timePreset, when,
                \* where, note, errors], as of its last mount

vars ==
  <<input, payload, result, phase, intention, now, obs, store, pages, calls, done,
    home, form>>

homeVars == <<home>>

formVars == <<form>>

statsVars == <<calls, done>>

pageVars == <<store, pages>>

codecVars == <<input, payload, result, phase>>

policyVars == <<intention, now, obs>>

NoResult == [ok |-> FALSE, val |-> Undefined]

CodecIdle ==
  /\ input = Undefined
  /\ payload = <<>>
  /\ result = NoResult
  /\ phase = "idle"

\* a page instance that is not open; the other fields are the initial
\* useState values
ClosedPage ==
  [open |-> FALSE, payload |-> <<>>, intention |-> Undefined,
   stats |-> ZeroStats, hasInteracted |-> Null, isExpired |-> FALSE]

Pages == 1..MaxPages

PagesIdle ==
  /\ store = EmptyStore
  /\ pages = [p \in Pages |-> ClosedPage]

\* the browser tabs (or viewers on one shared store) that may be inside
\* updateIntentionStats at the same time
MaxCallers == 2

\* updateIntentionStats calls made in one run of the stats model
MaxCalls == 3

Callers == 1..MaxCallers

Kinds == {Interested, Here}

IdleCall == [pc |-> "idle", token |-> <<>>, kind |-> <<>>, stats |-> Undefined]

NoneDone == [t \in Links, k \in Kinds |-> 0]

StatsIdle ==
  /\ calls = [c \in Callers |-> IdleCall]
  /\ done = NoneDone

\* the Home page is not open; the other fields are the initial useState
\* values
ClosedHome ==
  [open |-> FALSE, createdUrl |-> Null, savedVibes |-> Arr(<<>>),
   showMyVibes |-> FALSE, confirmationData |-> Null]

HomeIdle == home = ClosedHome

\* two decimal digits
TwoDigits(n) == <<48 + (n \div 10), 48 + (n % 10)>>

\* new Date(t).toISOString().slice(0, 16), "2025-08-DDThh:mm", for the
\* instants of August 2025 from the 11th on, in a UTC time zone
ToISOMinutes(t) ==
  U(<<"2", "0", "2", "5", "-", "0", "8", "-">>) \o TwoDigits(11 + (t \div MsPerDay))
    \o U(<<"T">>) \o TwoDigits((t % MsPerDay) \div MsPerHour)
    \o U(<<":">>) \o TwoDigits((t % MsPerHour) \div MsPerMinute)

\* the initial useState values of IntentionForm mounted at clock reading at
InitialForm(at) ==
  [what |-> <<>>, timePreset |-> "custom", when |-> ToISOMinutes(at + 30 * MsPerMinute),
   where |-> <<>>, note |-> <<>>, errors |-> {}]

FormIdle == form = InitialForm(0)

PolicyIdle ==
  /\ intention = Undefined
  /\ now = 0
  /\ obs = <<>>

(***************************************************************************)
(* The codec applied to inputs: SpecCodec                                  *)
(***************************************************************************)
\* either a valid intention about to be shared, or a payload from outside
InitCodec ==
  /\ PolicyIdle
  /\ PagesIdle
  /\ StatsIdle
  /\ HomeIdle
  /\ FormIdle
  /\ result = NoResult
  /\ \/ /\ input \in ValidIntentions
        /\ payload = <<>>
        /\ phase = "start"
     \/ /\ input = Undefined
        /\ payload \in RawPayloads
        /\ phase = "token"

\* createIntentionUrl: the token of the intention
Encode ==
  /\ phase = "start"
  /\ payload' = EncodeIntention(input)
  /\ phase' = "token"
  /\ UNCHANGED <<input, result, policyVars, pageVars, statsVars, homeVars, formVars>>

\* one character of a shared token is damaged in transit
Corrupt ==
  /\ phase = "token"
  /\ input # Undefined
  /\ \E i \in {1, Len(payload) \div 2, Len(payload)}, c \in CorruptChars :
       payload' = [payload EXCEPT ![i] = c]
  /\ input' = Undefined
  /\ UNCHANGED <<result, phase, policyVars, pageVars, statsVars, homeVars, formVars>>

\* the page decodes the payload of its URL
Decode ==
  /\ phase = "token"
  /\ result' = DecodeIntention(payload)
  /\ phase' = "decoded"
  /\ UNCHANGED <<input, payload, policyVars, pageVars, statsVars, homeVars, formVars>>

NextCodec == Encode \/ Corrupt \/ Decode

SpecCodec == InitCodec /\ [][NextCodec]_vars

(***************************************************************************)
(* Claims about the codec                                                  *)
(***************************************************************************)
\* the own properties of two objects agree: same names, same values
SameFields(a, b) ==
  /\ a.t = "obj" /\ b.t = "obj"
  /\ {a.v[i][1] : i \in 1..Len(a.v)} = {b.v[i][1] : i \in 1..Len(b.v)}
  /\ \A i \in 1..Len(a.v) : Get(b, a.v[i][1]) = a.v[i][2]

\* C1: decoding the token of a valid intention gives back the intention,
\* field for field; where and note are present in the result exactly when
\* they were present in the intention
C1_RoundTrip ==
  (phase = "decoded" /\ input # Undefined) =>
    /\ result.ok
    /\ SameFields(result.val, input)
    /\ \A k \in {KeyWhere, KeyNote} : HasKey(result.val, k) <=> HasKey(input, k)

\* a round trip of an intention with a note and no place
C1_Witness ==
  /\ phase = "decoded" /\ input # Undefined
  /\ HasKey(input, KeyNote) /\ ~HasKey(input, KeyWhere)
  /\ result.ok /\ HasKey(result.val, KeyNote) /\ ~HasKey(result.val, KeyWhere)
  /\ Get(result.val, KeyNote) = Str(NoteQuote)

\* the characters A-Z a-z 0-9 - _
UrlSafeChars == {Base64Chars[k] : k \in 1..62} \cup {Minus, Underscore}

\* C2: every character of the token of a valid intention is one of
\* A-Z a-z 0-9 - _ ; the token has no "+", "/" or "="
C2_TokenAlphabet ==
  (phase \in {"token", "decoded"} /\ input # Undefined) =>
    \A i \in 1..Len(payload) : payload[i] \in UrlSafeChars

\* a token whose standard base64 form has "=" padding and a "+" or a "/"
C2_Witness ==
  /\ phase = "token" /\ input # Undefined
  /\ LET base64 == Base64Encode(Utf8Encode(JSONStringify(input)))
     IN  /\ \E i \in 1..Len(base64) : base64[i] = Equals
         /\ \E i \in 1..Len(base64) : base64[i] \in {Plus, Slash}

\* a complete intention: an object that has what and when
IsCompleteIntention(x) == x.t = "obj" /\ HasKey(x, KeyWhat) /\ HasKey(x, KeyWhen)

\* C3: decodeIntention either signals a decoding error or returns a complete
\* intention, never anything else
C3_AllOrNothing ==
  phase = "decoded" => (~result.ok \/ IsCompleteIntention(result.val))

\* C4: decodeIntention signals a decoding error when the padded string is
\* not valid base64, when the bytes are not valid text, when the text is not
\* JSON, and when the parsed value is null
C4_DecodeFailures ==
  (/\ phase = "decoded"
   /\ \/ ~ValidBase64(PaddedBase64(payload))
      \/ ~ValidUtf8(Base64Decode(PaddedBase64(payload)))
      \/ ~JSONParse(DecodedText(payload)).ok
      \/ JSONParse(DecodedText(payload)).val = Null)
  => ~result.ok

(***************************************************************************)
(* The temporal policy applied to inputs: SpecPolicy                       *)
(***************************************************************************)
PolicyWhens == Whens \cup {WhenSoon}

\* places: no comma, three segments, two segments with blanks, empty
\* segments, and the empty string
PolicyWheres == {WhereDolores, WhereBlueBottle, WherePier, WhereCommas, <<>>}

PolicyIntentions ==
  {MakeIntention(WhatGo, t, wh, <<>>, 0) : t \in PolicyWhens, wh \in Optional(PolicyWheres)}

InitPolicy ==
  /\ CodecIdle
  /\ PagesIdle
  /\ StatsIdle
  /\ HomeIdle
  /\ FormIdle
  /\ intention \in PolicyIntentions
  /\ now = 0
  /\ obs = <<>>

\* a clock that may be set back
TickAnyWay ==
  /\ \E t \in Instants : t # now /\ now' = t
  /\ UNCHANGED <<intention, obs, codecVars, pageVars, statsVars, homeVars, formVars>>

\* time passes; the clock never goes backwards
Tick ==
  /\ \E t \in Instants : t > now /\ now' = t
  /\ UNCHANGED <<intention, obs, codecVars, pageVars, statsVars, homeVars, formVars>>

\* a render of the intention at the current clock reading: the page asks
\* isIntentionExpired and getLocationPrecision
Evaluate ==
  /\ obs' = <<[at |-> now,
               expired |-> IsIntentionExpired(intention, now),
               location |-> GetLocationPrecision(intention, now)]>>
  /\ UNCHANGED <<intention, now, codecVars, pageVars, statsVars, homeVars, formVars>>

NextPolicy == Tick \/ Evaluate

SpecPolicy == InitPolicy /\ [][NextPolicy]_vars

(***************************************************************************)
(* Claims about the temporal policy                                        *)
(***************************************************************************)
\* the instant T that the intention's when denotes, from the table
EventTime == WhenTable[Get(intention, KeyWhen).v]

\* C5: isIntentionExpired is true exactly when now > when + 2 hours: false
\* up to and at T + 2h, true from T + 2h + 1ms on
C5_ExpiryBoundary ==
  (obs # <<>> /\ ~EventTime.nan) =>
    (obs[1].expired <=> obs[1].at > EventTime.ms + 2 * MsPerHour)

\* evaluated exactly at T + 2h: not expired
C5_Witness ==
  /\ obs # <<>> /\ ~EventTime.nan
  /\ obs[1].at = EventTime.ms + 2 * MsPerHour
  /\ ~obs[1].expired

\* C6: with a clock that never goes backwards, an intention seen expired is
\* seen expired at every later evaluation, and it goes from not expired to
\* expired only by the clock passing when + 2 hours
C6_ExpiryTerminal ==
  [][(obs # <<>> /\ obs' # <<>>) =>
       /\ obs[1].expired => obs'[1].expired
       /\ (~obs[1].expired /\ obs'[1].expired) =>
            /\ ~EventTime.nan
            /\ obs[1].at <= EventTime.ms + 2 * MsPerHour
            /\ obs'[1].at > EventTime.ms + 2 * MsPerHour]_vars

\* seen expired well after the expiry moment
C6_Witness ==
  /\ obs # <<>> /\ ~EventTime.nan
  /\ obs[1].expired
  /\ obs[1].at >= EventTime.ms + 2 * MsPerHour + HalfHourInMs

\* the number of comma-separated segments of a place
SegmentCount(w) == Cardinality({i \in 1..Len(w) : w[i] = Comma}) + 1

\* the text after the last but one comma of a place that has two or more
\* commas, the whole place otherwise, without the white space around it
LastTwoSegments(w) ==
  LET commas == {i \in 1..Len(w) : w[i] = Comma}
      last == CHOOSE p \in commas : \A q \in commas : q <= p
      prev == CHOOSE p \in commas \ {last} : \A q \in commas \ {last} : q <= p
  IN  IF Cardinality(commas) < 2 THEN Trim(w)
      ELSE Trim(SubSeq(w, prev + 1, Len(w)))

\* C8: getLocationPrecision is "" when where is absent; when the event is
\* more than 1 hour away and where has 2 or more segments it is the last
\* two segments, trimmed; a where of a single segment is returned unchanged
\* at any time
C8_LocationReference ==
  obs # <<>> =>
    LET where == Field(intention, KeyWhere)
        far == ~EventTime.nan /\ EventTime.ms - obs[1].at > MsPerHour
    IN  /\ where = Undefined => obs[1].location = <<>>
        /\ (where # Undefined /\ far /\ SegmentCount(where.v) >= 2) =>
             obs[1].location = LastTwoSegments(where.v)
        /\ (where # Undefined /\ SegmentCount(where.v) = 1) =>
             obs[1].location = where.v

\* "Mission District, San Francisco"
MissionSF ==
  U(<<"M", "i", "s", "s", "i", "o", "n", " ", "D", "i", "s", "t", "r", "i", "c", "t",
      ",", " ", "S", "a", "n", " ", "F", "r", "a", "n", "c", "i", "s", "c", "o">>)

\* the three-segment place, three hours before the event
C8_Witness ==
  /\ obs # <<>> /\ ~EventTime.nan
  /\ Field(intention, KeyWhere) = Str(WhereBlueBottle)
  /\ EventTime.ms - obs[1].at = 3 * MsPerHour
  /\ obs[1].location = MissionSF

\* C9: whenever when - now <= 1 hour (exactly 1 hour and past events
\* included) the full where is returned; anything else than the full where
\* is returned only when when - now > 1 hour
C9_NearBoundary ==
  (obs # <<>> /\ Field(intention, KeyWhere) # Undefined) =>
    LET where == Field(intention, KeyWhere).v
    IN  /\ (~EventTime.nan /\ EventTime.ms - obs[1].at <= MsPerHour) =>
             obs[1].location = where
        /\ obs[1].location # where =>
             (~EventTime.nan /\ EventTime.ms - obs[1].at > MsPerHour)

\* the three-segment place, exactly one hour before the event: in full
C9_Witness ==
  /\ obs # <<>> /\ ~EventTime.nan
  /\ Field(intention, KeyWhere) = Str(WhereBlueBottle)
  /\ EventTime.ms - obs[1].at = MsPerHour
  /\ obs[1].location = WhereBlueBottle

(***************************************************************************)
(* The viewer's pages on one localStorage: Spec                            *)
(***************************************************************************)
\* clock readings of the page model: the start, the expiry moment of the
\* first link and the millisecond after it, and a time after both expired
PageInstants ==
  {0, 3 * MsPerHour + TwoHoursInMs, 3 * MsPerHour + TwoHoursInMs + 1, 7 * MsPerHour}

Init ==
  /\ CodecIdle
  /\ intention = Undefined
  /\ obs = <<>>
  /\ now = 0
  /\ PagesIdle
  /\ StatsIdle
  /\ HomeIdle
  /\ FormIdle

\* the viewer opens (or reloads into) a link in page instance p: IntentionPage
\* decodes the payload and renders IntentionDisplay, whose effect runs
\* before any event is handled: it loads the stats and the user-choice
\* marker and evaluates the expiry once
\* the state of IntentionDisplay after its effect has run
IntentionDisplay(link, decoded, userInteraction) ==
  [open |-> TRUE,
   payload |-> link,
   intention |-> decoded,
   stats |-> GetIntentionStats(store, link),
   hasInteracted |-> IF Truthy(userInteraction) THEN userInteraction ELSE Null,
   isExpired |-> IsIntentionExpired(decoded, now)]

\* IntentionPage renders IntentionDisplay for a payload that decodes
IntentionPage(link, decoded) ==
  IF decoded.ok
  THEN IntentionDisplay(link, decoded.val, GetItem(store, UserChoiceKey(link)))
  ELSE ClosedPage

OpenPage(p, link) ==
  /\ ~pages[p].open
  /\ DecodeIntention(link).ok
  /\ pages' = [pages EXCEPT ![p] = IntentionPage(link, DecodeIntention(link))]
  /\ UNCHANGED <<store, now, intention, obs, codecVars, statsVars, homeVars, formVars>>

\* the viewer closes the page (a reload is ClosePage then OpenPage)
ClosePage(p) ==
  /\ pages[p].open
  /\ pages' = [pages EXCEPT ![p] = ClosedPage]
  /\ UNCHANGED <<store, now, intention, obs, codecVars, statsVars, homeVars, formVars>>

\* the calls of localStorage a run of handleInteraction makes, in the order
\* it makes them
GetCall(k) == [op |-> "getItem", key |-> k]

SetCall(k) == [op |-> "setItem", key |-> k]

\* the pages recording the kind 'here'
InteractionKindHere == Here

\* the kind the button records: the literal 'interested' of handleInteraction
InteractionKind == Interested

\* a handleInteraction body without setStats(newStats)
InteractionKeepsStats(p, upd) ==
  IF ~upd.ok
  THEN /\ UNCHANGED <<store, pages>>
       /\ obs' = <<GetCall(GetStorageKey(pages[p].payload))>>
  ELSE /\ pages' = [pages EXCEPT ![p].hasInteracted = Str(InteractionKind)]
       /\ store' = SetItem(upd.store, UserChoiceKey(pages[p].payload), InteractionKind)
       /\ obs' = <<GetCall(GetStorageKey(pages[p].payload)),
                   SetCall(GetStorageKey(pages[p].payload)),
                   SetCall(UserChoiceKey(pages[p].payload))>>

\* the body of handleInteraction past its guard, upd being what
\* updateIntentionStats did
Interaction(p, upd) ==
  IF ~upd.ok
  THEN /\ UNCHANGED <<store, pages>>
       /\ obs' = <<GetCall(GetStorageKey(pages[p].payload))>>
  ELSE /\ pages' = [pages EXCEPT ![p].stats = upd.stats,
                                 ![p].hasInteracted = Str(InteractionKind)]
       /\ store' = SetItem(upd.store, UserChoiceKey(pages[p].payload), InteractionKind)
       /\ obs' = <<GetCall(GetStorageKey(pages[p].payload)),
                   SetCall(GetStorageKey(pages[p].payload)),
                   SetCall(UserChoiceKey(pages[p].payload))>>

\* a handleInteraction without its guard
HandleInteractionUnguarded(p) ==
  /\ pages[p].open
  /\ Interaction(p, UpdateIntentionStats(store, pages[p].payload, InteractionKind))
  /\ UNCHANGED <<now, intention, codecVars, statsVars, homeVars, formVars>>

\* handleInteraction of page instance p
HandleInteraction(p) ==
  /\ pages[p].open
  /\ IF Truthy(pages[p].hasInteracted) \/ pages[p].isExpired
     THEN UNCHANGED <<store, pages>> /\ obs' = <<>>
     ELSE Interaction(p, UpdateIntentionStats(store, pages[p].payload, InteractionKind))
  /\ UNCHANGED <<now, intention, codecVars, statsVars, homeVars, formVars>>

\* time passes
PageTick ==
  /\ \E t \in PageInstants : t > now /\ now' = t
  /\ UNCHANGED <<store, pages, intention, obs, codecVars, statsVars, homeVars, formVars>>

Next ==
  \/ \E p \in Pages, link \in Links : OpenPage(p, link)
  \/ \E p \in Pages : ClosePage(p)
  \/ \E p \in Pages : HandleInteraction(p)
  \/ PageTick

Spec == Init /\ [][Next]_vars

(***************************************************************************)
(* Claims about the pages                                                  *)
(***************************************************************************)
\* the stored interested count of a link in a store
InterestedOf(st, link) == Field(GetIntentionStats(st, link), Interested)

\* the intention a link carries
IntentionOf(link) == DecodeIntention(link).val

\* C7: no interaction is recorded (no stats entry and no user-choice marker
\* is written) at a moment when the intention is expired, also when the
\* page was opened before the expiry moment
C7_ExpiredBlocksInteraction ==
  [][\A link \in Links :
       (\/ GetItem(store', GetStorageKey(link)) # GetItem(store, GetStorageKey(link))
        \/ GetItem(store', UserChoiceKey(link)) # GetItem(store, UserChoiceKey(link)))
       => ~IsIntentionExpired(IntentionOf(link), now)]_vars

\* C10: whatever one viewer does with a link (presses, reloads, several open
\* page instances), its stored interested count rises by at most 1 in total
\* and the user-choice marker, once written, is not written over
C10_AtMostOncePerViewer ==
  [][\A link \in Links :
       /\ InterestedOf(store', link).v <= 1
       /\ GetItem(store, UserChoiceKey(link)) # Null =>
            /\ GetItem(store', UserChoiceKey(link)) = GetItem(store, UserChoiceKey(link))
            /\ GetItem(store', GetStorageKey(link)) = GetItem(store, GetStorageKey(link))]_vars

(***************************************************************************)
(* updateIntentionStats and getIntentionStats on one shared store:         *)
(* SpecStats.  A call of updateIntentionStats reads (getItem) and then     *)
(* writes (setItem); another tab on the same localStorage may run between  *)
(* the two.                                                                *)
(***************************************************************************)
InitStats ==
  /\ CodecIdle
  /\ PolicyIdle
  /\ PagesIdle
  /\ StatsIdle
  /\ HomeIdle
  /\ FormIdle

\* calls that have begun: those that returned and those in flight
Started ==
  Cardinality({c \in Callers : calls[c].pc # "idle"})
  + Cardinality({<<t, k, n>> \in Links \X Kinds \X (1..MaxCalls) : n <= done[t, k]})

\* const stats = getIntentionStats(payload)
ReadStats(c, t, k) ==
  /\ calls[c].pc = "idle"
  /\ Started < MaxCalls
  /\ calls' = [calls EXCEPT ![c] =
       [pc |-> "read", token |-> t, kind |-> k, stats |-> GetIntentionStats(store, t)]]
  /\ UNCHANGED <<store, done, obs, pages, intention, now, codecVars, homeVars, formVars>>

\* updateIntentionStats made atomic: the stats are read again at the moment
\* of the write
HeldStatsFresh(c) == GetIntentionStats(store, calls[c].token)

\* the stats object the call of caller c holds since its read
HeldStats(c) == calls[c].stats

\* the end of the call of caller c, upd being what the increment and the
\* write did
EndCall(c, upd) ==
  /\ store' = upd.store
  /\ obs' = <<[op |-> "update", token |-> calls[c].token, kind |-> calls[c].kind,
               ok |-> upd.ok, stats |-> upd.stats]>>
  /\ done' = IF upd.ok
             THEN [done EXCEPT ![calls[c].token, calls[c].kind] = @ + 1]
             ELSE done
  /\ calls' = [calls EXCEPT ![c] = IdleCall]

\* stats[type] += 1; localStorage.setItem(key, JSON.stringify(stats));
\* return stats
WriteStats(c) ==
  /\ calls[c].pc = "read"
  /\ EndCall(c, IncrementStats(store, calls[c].token, calls[c].kind, HeldStats(c)))
  /\ UNCHANGED <<pages, intention, now, codecVars, homeVars, formVars>>

\* a call of getIntentionStats on its own
GetStats(t) ==
  /\ obs' = <<[op |-> "get", token |-> t, kind |-> <<>>, ok |-> TRUE,
               stats |-> GetIntentionStats(store, t)]>>
  /\ UNCHANGED <<store, calls, done, pages, intention, now, codecVars, homeVars, formVars>>

NextStats ==
  \/ \E c \in Callers, t \in Links, k \in Kinds : ReadStats(c, t, k)
  \/ \E c \in Callers : WriteStats(c)
  \/ \E t \in Links : GetStats(t)

SpecStats == InitStats /\ [][NextStats]_vars

(***************************************************************************)
(* Claims about the stats calls                                            *)
(***************************************************************************)
\* the stored counter of kind k of token t
CountOf(st, t, k) == Field(GetIntentionStats(st, t), k).v

\* the step ends the updateIntentionStats call of caller c
Returns(c) == calls[c].pc = "read" /\ calls'[c].pc = "idle"

\* C11: a call that read the count N leaves N + 1 in the store whatever was
\* written since its read: when nothing was (the calls run one after the
\* other) the count rises by 1, so two such calls give N + 2; when another
\* call that read N too has written N + 1 in between, the count stays
\* N + 1 and that increment is dropped
C11_LostUpdate ==
  [][\A c \in Callers :
       Returns(c) =>
         LET t == calls[c].token
             k == calls[c].kind
             N == Field(calls[c].stats, k).v
         IN  /\ CountOf(store', t, k) = N + 1
             /\ CountOf(store, t, k) = N => CountOf(store', t, k) = CountOf(store, t, k) + 1
             /\ CountOf(store, t, k) = N + 1 => CountOf(store', t, k) = CountOf(store, t, k)]_vars

\* two calls for one counter have returned and the counter is 1
C11_Witness ==
  \E t \in Links, k \in Kinds : done[t, k] = 2 /\ CountOf(store, t, k) = 1

\* C14: getIntentionStats on a token with no stored entry returns
\* { interested: 0, here: 0 }
C14_StatsDefault ==
  [][\A t \in Links :
       (/\ obs' # obs
        /\ obs'[1].op = "get"
        /\ obs'[1].token = t
        /\ GetStorageKey(t) \notin DOMAIN store)
       => obs'[1].stats = Obj(<<<<Interested, Num(0)>>, <<Here, Num(0)>>>>)]_vars

\* the stats of a token without an entry were asked for while the other
\* token has counts
C14_Witness ==
  /\ obs # <<>>
  /\ obs[1].op = "get"
  /\ GetStorageKey(obs[1].token) \notin DOMAIN store
  /\ obs[1].stats = Obj(<<<<Interested, Num(0)>>, <<Here, Num(0)>>>>)
  /\ DOMAIN store # {}

\* C15: a call of updateIntentionStats(token, kind) with no write of another
\* call between its read and its write raises the stored counter of kind by
\* exactly 1, like the number of calls that returned, leaves the other
\* counter and every other entry of the store as they were, and returns
\* what getIntentionStats(token) gives right after it
C15_ExactIncrement ==
  [][\A c \in Callers :
       (Returns(c) /\ GetIntentionStats(store, calls[c].token) = calls[c].stats) =>
         LET t == calls[c].token
             k == calls[c].kind
         IN  /\ CountOf(store', t, k) = CountOf(store, t, k) + 1
             /\ done'[t, k] = done[t, k] + 1
             /\ \A o \in Kinds \ {k} : CountOf(store', t, o) = CountOf(store, t, o)
             /\ DOMAIN store' = DOMAIN store \cup {GetStorageKey(t)}
             /\ \A y \in DOMAIN store \ {GetStorageKey(t)} : store'[y] = store[y]
             /\ obs'[1].ok
             /\ obs'[1].stats = GetIntentionStats(store', t)]_vars

\* three calls for one counter of a token have returned and it holds 3
C15_Witness ==
  \E t \in Links, k \in Kinds : done[t, k] = 3 /\ CountOf(store, t, k) = 3

(***************************************************************************)
(* The stats calls on a store whose stats entry was not written by this    *)
(* program (edited by hand, damaged, left by other code): SpecStored       *)
(***************************************************************************)
\* texts found at a stats key: not JSON, cut short, the empty text, JSON
\* that is not a stats record, a record with a text counter, a record
StoredTexts ==
  { U(<<"o", "o", "p", "s">>),
    SubSeq(JSONStringify(ZeroStats), 1, 15),
    <<>>,
    JSONStringify(Null),
    JSONStringify(Num(5)),
    JSONStringify(Str(U(<<"x">>))),
    JSONStringify(Obj(<<>>)),
    JSONStringify(Arr(<<>>)),
    JSONStringify(Obj(<<<<Interested, Str(U(<<"2">>))>>, <<Here, Num(0)>>>>)),
    JSONStringify(Obj(<<<<Interested, Num(2)>>, <<Here, Num(1)>>>>)) }

InitStored ==
  /\ CodecIdle
  /\ PolicyIdle
  /\ StatsIdle
  /\ HomeIdle
  /\ FormIdle
  /\ pages = [p \in Pages |-> ClosedPage]
  /\ \E t \in Links, x \in StoredTexts : store = SetItem(EmptyStore, GetStorageKey(t), x)

\* the end of a whole call of updateIntentionStats(t, k), upd being what
\* it did
Updated(t, k, upd) ==
  /\ store' = upd.store
  /\ obs' = <<[op |-> "update", token |-> t, kind |-> k, ok |-> upd.ok,
               stats |-> upd.stats]>>
  /\ done' = IF upd.ok THEN [done EXCEPT ![t, k] = @ + 1] ELSE done

\* a whole call of updateIntentionStats(t, k), nothing running in between
UpdateStats(t, k) ==
  /\ Started < MaxCalls
  /\ Updated(t, k, UpdateIntentionStats(store, t, k))
  /\ UNCHANGED <<calls, pages, intention, now, codecVars, homeVars, formVars>>

NextStored ==
  \/ \E t \in Links : GetStats(t)
  \/ \E t \in Links, k \in Kinds : UpdateStats(t, k)

SpecStored == InitStored /\ [][NextStored]_vars

\* x is a stats record: an object whose two counters are numbers
IsStatsRecord(x) ==
  /\ x.t = "obj"
  /\ Field(x, Interested).t = "num"
  /\ Field(x, Here).t = "num"

\* the entry of token t in st is there and is not the text of a stats record
CorruptEntry(st, t) ==
  /\ GetStorageKey(t) \in DOMAIN st
  /\ \/ ~JSONParse(st[GetStorageKey(t)]).ok
     \/ ~IsStatsRecord(JSONParse(st[GetStorageKey(t)]).val)

\* C12: getIntentionStats returns a stats record, and { interested: 0,
\* here: 0 } when the token has no entry or its entry is not the text of a
\* stats record
C12_StatsTolerant ==
  [][\A t \in Links :
       (obs' # obs /\ obs'[1].op = "get" /\ obs'[1].token = t) =>
         /\ obs'[1].ok
         /\ IsStatsRecord(obs'[1].stats)
         /\ (GetStorageKey(t) \notin DOMAIN store \/ CorruptEntry(store, t))
              => obs'[1].stats = Obj(<<<<Interested, Num(0)>>, <<Here, Num(0)>>>>)]_vars

\* C13: updateIntentionStats(token, kind) on a corrupt entry does not throw
\* and leaves the counter of kind at 1 and the other counter at 0
C13_CorruptNeverBlocks ==
  [][\A t \in Links :
       (/\ obs' # obs
        /\ obs'[1].op = "update"
        /\ obs'[1].token = t
        /\ CorruptEntry(store, t)) =>
         /\ obs'[1].ok
         /\ \A k \in Kinds :
              Field(GetIntentionStats(store', t), k)
                = Num(IF k = obs'[1].kind THEN 1 ELSE 0)]_vars

(***************************************************************************)
(* More claims about the pages (Spec)                                      *)
(***************************************************************************)
\* C16: in every run of handleInteraction that records an interaction, the
\* user-choice marker of the token is written before the stats are touched
\* (before the first localStorage call of updateIntentionStats)
C16_MarkerBeforeIncrement ==
  \A link \in Links :
    \A i \in DOMAIN obs :
      obs[i].key = GetStorageKey(link) =>
        \E j \in 1..(i - 1) : obs[j] = SetCall(UserChoiceKey(link))

\* tokens whose keys are compared: the links, payloads from outside, the
\* empty token and tokens that repeat a piece of a prefix
KeyTokens ==
  Links \cup RawPayloads
  \cup {<<>>, U(<<"s", "t", "a", "t", "s", "_">>), U(<<"u", "s", "e", "r", "_">>),
        U(<<"_">>), MyVibesKey}

\* no stats key and no user-choice key is the key of something else
KeysApart ==
  \A t \in KeyTokens, u \in KeyTokens :
    /\ GetStorageKey(t) # UserChoiceKey(u)
    /\ GetStorageKey(t) # MyVibesKey
    /\ UserChoiceKey(t) # MyVibesKey
    /\ t # u => /\ GetStorageKey(t) # GetStorageKey(u)
                /\ UserChoiceKey(t) # UserChoiceKey(u)

\* C17: the stats key and the user-choice key of a token differ from each
\* other, from the keys of every other token and from 'my-vibes'; a step of
\* the page of token t that writes to the store changes the stats entry and
\* the marker of t and leaves every other entry as it was
C17_KeyIsolation ==
  [][/\ KeysApart
     /\ \A p \in Pages :
          (store' # store /\ pages'[p] # pages[p]) =>
            LET t == pages[p].payload
            IN  /\ store'[GetStorageKey(t)] # store'[UserChoiceKey(t)]
                /\ DOMAIN store' = DOMAIN store \cup {GetStorageKey(t), UserChoiceKey(t)}
                /\ \A y \in DOMAIN store \ {GetStorageKey(t), UserChoiceKey(t)} :
                     store'[y] = store[y]]_vars

\* an interaction was just recorded for one link while the store holds the
\* stats and the marker of the other link
C17_Witness ==
  /\ Cardinality(DOMAIN store) = 4
  /\ Len(obs) = 3
  /\ \A link \in Links : {GetStorageKey(link), UserChoiceKey(link)} \subseteq DOMAIN store

\* C20: from an empty store the pages leave the 'here' counter of every
\* token at 0, and every user-choice marker, stored or held by a page, is
\* 'interested'
C20_OnlyInterested ==
  /\ \A link \in Links :
       /\ Field(GetIntentionStats(store, link), Here) = Num(0)
       /\ UserChoiceKey(link) \in DOMAIN store =>
            store[UserChoiceKey(link)] = U(<<"i", "n", "t", "e", "r", "e", "s", "t", "e", "d">>)
  /\ \A p \in Pages :
       pages[p].hasInteracted \in {Null, Str(U(<<"i", "n", "t", "e", "r", "e", "s", "t", "e", "d">>))}

\* interactions were recorded for both links, one of them twice
C20_Witness ==
  /\ \A link \in Links : UserChoiceKey(link) \in DOMAIN store
  /\ \E link \in Links : Field(GetIntentionStats(store, link), Interested) = Num(2)
  /\ \E p \in Pages : pages[p].hasInteracted # Null

(***************************************************************************)
(* The route /i/[payload] answering a request: SpecRoute                   *)
(***************************************************************************)
RECURSIVE StringOf(_)

\* String(x), as a template literal converts a value
StringOf(x) ==
  CASE x.t = "str" -> x.v
    [] x.t = "num" -> NumberToString(x.v)
    [] x.t = "numtext" -> x.v
    [] x.t = "bool" -> IF x.v THEN TrueText ELSE U(<<"f", "a", "l", "s", "e">>)
    [] x.t = "null" -> NullText
    [] x.t = "undefined" -> U(<<"u", "n", "d", "e", "f", "i", "n", "e", "d">>)
    [] x.t = "nan" -> U(<<"N", "a", "N">>)
    [] x.t = "arr" ->
         JoinWith([i \in 1..Len(x.v) |->
                     IF x.v[i].t \in {"null", "undefined"} THEN <<>> ELSE StringOf(x.v[i])],
                  <<Comma>>)
    [] OTHER -> U(<<"[", "o", "b", "j", "e", "c", "t", " ", "O", "b", "j", "e", "c", "t", "]">>)

\* reading a property of x throws a TypeError
PropertyReadThrows(x) == x.t \in {"null", "undefined"}

\* getLocationPrecision(x) throws: x has no properties to read, or its
\* where is something without split and the event is more than an hour away
LocationThrows(x, at) ==
  \/ PropertyReadThrows(x)
  \/ /\ Truthy(Field(x, KeyWhere))
     /\ Field(x, KeyWhere).t # "str"
     /\ ~DateGetTime(Field(x, KeyWhen)).nan
     /\ DateGetTime(Field(x, KeyWhen)).ms - at > OneHourInMs

TitleSuffix == U(<<" ", "-", " ", "A", "m", "b", "i", "e", "n", "t">>)

\* the metadata of the catch branch, title 'Invalid Intention - Ambient'
InvalidMetadata ==
  [kind |-> "invalid",
   title |-> U(<<"I", "n", "v", "a", "l", "i", "d", " ", "I", "n", "t", "e", "n",
                 "t", "i", "o", "n">>) \o TitleSuffix]

\* generateMetadata for a payload that decoded to decoded: everything that
\* throws is inside its try
GenerateMetadata(decoded, at) ==
  IF ~decoded.ok \/ LocationThrows(decoded.val, at) THEN InvalidMetadata
  ELSE [kind |-> "decoded",
        title |-> StringOf(Field(decoded.val, KeyWhat)) \o TitleSuffix]

\* the first render of IntentionDisplay throws: a property of null is read,
\* getLocationPrecision throws, or an object is given to React as a child
RenderThrows(x, at) ==
  \/ PropertyReadThrows(x)
  \/ Field(x, KeyWhat).t = "obj"
  \/ Truthy(Field(x, KeyNote)) /\ Field(x, KeyNote).t = "obj"
  \/ Truthy(Field(x, KeyWhere)) /\ (LocationThrows(x, at) \/ Field(x, KeyWhere).t = "obj")

\* IntentionPage for a payload that decoded to decoded: the 'invalid link'
\* view of its catch branch, else IntentionDisplay, whose render is outside
\* the try
RenderPage(decoded, at) ==
  IF ~decoded.ok THEN [view |-> "invalid", intention |-> Undefined]
  ELSE IF RenderThrows(decoded.val, at)
  THEN [view |-> "error", intention |-> decoded.val]
  ELSE [view |-> "display", intention |-> decoded.val]

\* what the request gave, decoded being decodeIntention(payload)
Answer(decoded) ==
  /\ result' = decoded
  /\ obs' = <<[page |-> RenderPage(decoded, now),
               metadata |-> GenerateMetadata(decoded, now)]>>

\* a request for /i/payload: generateMetadata and IntentionPage
Request ==
  /\ phase = "token"
  /\ Answer(DecodeIntention(payload))
  /\ phase' = "decoded"
  /\ UNCHANGED <<input, payload, intention, now, pageVars, statsVars, homeVars, formVars>>

NextRoute == Encode \/ Corrupt \/ Request

SpecRoute == InitCodec /\ [][NextRoute]_vars

\* C18: for every payload the page is the 'invalid link' view, exactly when
\* decoding fails, or IntentionDisplay with a complete intention, never an
\* error; and generateMetadata returns the metadata of the decoded
\* intention or the 'Invalid Intention - Ambient' metadata
C18_InvalidLinkView ==
  phase = "decoded" =>
    /\ obs[1].page.view \in {"invalid", "display"}
    /\ obs[1].page.view = "invalid" <=> ~result.ok
    /\ obs[1].page.view = "display" => IsCompleteIntention(obs[1].page.intention)
    /\ obs[1].metadata.kind = "decoded" => IsCompleteIntention(result.val)
    /\ obs[1].metadata.kind = "invalid" => obs[1].metadata = InvalidMetadata

(***************************************************************************)
(* The creator's Home page on the same localStorage: SpecHome              *)
(***************************************************************************)
\* links made in one run of the Home model
MaxVibes == 2

\* clock readings of the Home model: around 24 hours after the start
HomeInstants == {0, MsPerDay - 1, MsPerDay}

\* what the form is filled with
HomeWhats == {WhatGo}

\* window.location.origin
Origin == U(<<"h", "t", "t", "p", ":", "/", "/", "a", ".", "b">>)

\* createIntentionUrl(data)
CreateIntentionUrl(data) == Origin \o <<Slash>> \o U(<<"i">>) \o <<Slash>> \o EncodeIntention(data)

\* url.split('/').pop() || '': what follows the last "/"
LastSegment(url) ==
  LET slashes == {i \in 1..Len(url) : url[i] = Slash}
  IN  IF slashes = {} THEN url
      ELSE SubSeq(url, (CHOOSE i \in slashes : \A j \in slashes : j <= i) + 1, Len(url))

KeyId == U(<<"i", "d">>)
KeyCreated == U(<<"c", "r", "e", "a", "t", "e", "d">>)
KeyResponses == U(<<"r", "e", "s", "p", "o", "n", "s", "e", "s">>)

\* 24 hours, the literal 86400000 of handleConfirmAndCreate
RetentionMs == 86400000

\* the vibe handleConfirmAndCreate saves
NewVibe(url, data, at) ==
  Obj(<<<<KeyId, Str(LastSegment(url))>>,
        <<KeyWhat, Field(data, KeyWhat)>>,
        <<KeyWhen, Field(data, KeyWhen)>>,
        <<KeyCreated, Num(at)>>,
        <<KeyResponses, Num(0)>>>>)

\* savedVibes.filter(v => Date.now() - v.created < 86400000)
KeepRecent(vibes, at) ==
  SelectSeq(vibes, LAMBDA v : at - Field(v, KeyCreated).v < RetentionMs)

\* the view the render of Home selects
HomeView(h) ==
  IF ~Truthy(h.createdUrl) /\ ~h.showMyVibes /\ ~Truthy(h.confirmationData) THEN "form"
  ELSE IF Truthy(h.confirmationData) THEN "confirmation"
  ELSE IF h.showMyVibes THEN "list"
  ELSE "success"

InitHome ==
  /\ CodecIdle
  /\ PolicyIdle
  /\ PagesIdle
  /\ StatsIdle
  /\ HomeIdle
  /\ FormIdle

\* the state after the effect of Home has run, saved being the text under
\* 'my-vibes'
LoadedHome(saved) ==
  [ClosedHome EXCEPT !.open = TRUE,
                     !.savedVibes = IF Truthy(saved) THEN JSONParse(saved.v).val
                                    ELSE Arr(<<>>)]

\* the creator opens (or reloads) the Home page
MountHome ==
  /\ ~home.open
  /\ home' = LoadedHome(GetItem(store, MyVibesKey))
  /\ UNCHANGED <<store, now, obs, pages, intention, codecVars, statsVars, formVars>>

\* the creator closes the Home page
CloseHome ==
  /\ home.open
  /\ home' = ClosedHome
  /\ UNCHANGED <<store, now, obs, pages, intention, codecVars, statsVars, formVars>>

\* the form is submitted: handleIntentionPreview with the data of the form,
\* whose createdAt is Date.now()
HandleIntentionPreview(w) ==
  /\ home.open
  /\ HomeView(home) = "form"
  /\ home' = [home EXCEPT !.confirmationData = MakeIntention(w, When0300, <<>>, <<>>, now)]
  /\ UNCHANGED <<store, now, obs, pages, intention, codecVars, statsVars, formVars>>

\* a handleConfirmAndCreate without setConfirmationData(null)
SaveVibesKeepsData(url, updated) ==
  /\ home' = [home EXCEPT !.createdUrl = Str(url), !.savedVibes = Arr(updated)]
  /\ store' = SetItem(store, MyVibesKey, JSONStringify(Arr(updated)))

\* handleConfirmAndCreate past the two first setters, updated being the
\* list it saves
SaveVibes(url, updated) ==
  /\ home' = [home EXCEPT !.createdUrl = Str(url),
                          !.confirmationData = Null,
                          !.savedVibes = Arr(updated)]
  /\ store' = SetItem(store, MyVibesKey, JSONStringify(Arr(updated)))

\* handleConfirmAndCreate(url, data)
HandleConfirmAndCreate(url, data) ==
  SaveVibes(url, Append(KeepRecent(home.savedVibes.v, now), NewVibe(url, data, now)))

\* the confirm button: handleConfirm of ConfirmationScreen
HandleConfirm ==
  /\ home.open
  /\ HomeView(home) = "confirmation"
  /\ Len(home.savedVibes.v) < MaxVibes
  /\ HandleConfirmAndCreate(CreateIntentionUrl(home.confirmationData), home.confirmationData)
  /\ UNCHANGED <<now, obs, pages, intention, codecVars, statsVars, formVars>>

\* handleBackToEdit
HandleBackToEdit ==
  /\ home.open
  /\ HomeView(home) = "confirmation"
  /\ home' = [home EXCEPT !.confirmationData = Null]
  /\ UNCHANGED <<store, now, obs, pages, intention, codecVars, statsVars, formVars>>

\* responses a link gets in one run of the Home model
MaxResponses == 1

\* parsed.interested || 0
InterestedOrZero(parsed) ==
  IF Truthy(Field(parsed, Interested)) THEN Field(parsed, Interested) ELSE Num(0)

\* the callback of checkResponses's map throws on this stored text: JSON.parse
\* throws, or the read of .interested does
CheckThrows(stats) ==
  /\ Truthy(stats)
  /\ \/ ~JSONParse(stats.v).ok
     \/ PropertyReadThrows(JSONParse(stats.v).val)

\* the callback of checkResponses's map, stats being the stored text of the
\* vibe's stats key
CheckedVibe(vibe, stats) ==
  IF Truthy(stats)
  THEN Put(vibe, KeyResponses, InterestedOrZero(JSONParse(stats.v).val))
  ELSE vibe

\* a checkResponses that reads the key of the user-choice marker
VibeStatsKeyOfUser(id) == UserPrefix \o id

\* the key checkResponses reads, `ambient_stats_${vibe.id}`
VibeStatsKey(id) ==
  U(<<"a", "m", "b", "i", "e", "n", "t", "_", "s", "t", "a", "t", "s", "_">>) \o id

\* the stored text checkResponses reads for a vibe
StatsTextOf(st, vibe) == GetItem(st, VibeStatsKey(StringOf(Field(vibe, KeyId))))

\* savedVibes.map(...) of checkResponses
CheckedVibes(st, vibes) ==
  [i \in 1..Len(vibes) |-> CheckedVibe(vibes[i], StatsTextOf(st, vibes[i]))]

\* the end of checkResponses, updated being the list its map returned
SaveChecked(shown, updated) ==
  /\ home' = [shown EXCEPT !.savedVibes = Arr(updated)]
  /\ store' = SetItem(store, MyVibesKey, JSONStringify(Arr(updated)))

\* checkResponses() followed by the setters in shown, the fields the button
\* sets after calling it; when the map throws the promise is rejected and
\* only those setters take effect
CheckResponses(shown) ==
  IF \E i \in 1..Len(home.savedVibes.v) :
       CheckThrows(StatsTextOf(store, home.savedVibes.v[i]))
  THEN /\ home' = shown
       /\ UNCHANGED store
  ELSE SaveChecked(shown, CheckedVibes(store, home.savedVibes.v))

\* the "check my links" button of the form view
CheckMyLinks ==
  /\ home.open
  /\ HomeView(home) = "form"
  /\ Len(home.savedVibes.v) > 0
  /\ CheckResponses([home EXCEPT !.showMyVibes = TRUE])
  /\ UNCHANGED <<now, obs, pages, intention, codecVars, statsVars, formVars>>

\* the "create new link" button of the list view
CloseList ==
  /\ home.open
  /\ HomeView(home) = "list"
  /\ home' = [home EXCEPT !.showMyVibes = FALSE, !.confirmationData = Null]
  /\ UNCHANGED <<store, now, obs, pages, intention, codecVars, statsVars, formVars>>

\* a "create another" button that leaves the created link in place
CreateAnotherKeepsUrl ==
  /\ home.open
  /\ HomeView(home) = "success"
  /\ home' = [home EXCEPT !.confirmationData = Null]
  /\ UNCHANGED <<store, now, obs, pages, intention, codecVars, statsVars, formVars>>

\* the "create another" button of the success view
CreateAnother ==
  /\ home.open
  /\ HomeView(home) = "success"
  /\ home' = [home EXCEPT !.createdUrl = Null, !.confirmationData = Null]
  /\ UNCHANGED <<store, now, obs, pages, intention, codecVars, statsVars, formVars>>

\* the "check who's interested" button of the success view
CheckWhoIsInterested ==
  /\ home.open
  /\ HomeView(home) = "success"
  /\ Len(home.savedVibes.v) > 0
  /\ CheckResponses([home EXCEPT !.createdUrl = Null,
                                 !.confirmationData = Null,
                                 !.showMyVibes = TRUE])
  /\ UNCHANGED <<now, obs, pages, intention, codecVars, statsVars, formVars>>

\* the vibes of the text stored under 'my-vibes'
StoredVibes(st) ==
  IF MyVibesKey \in DOMAIN st THEN JSONParse(st[MyVibesKey]).val.v ELSE <<>>

\* a viewer in the same browser answers a link the Home page lists:
\* handleInteraction's two writes, on the link whose payload is id
Respond(id) ==
  /\ InterestedOf(store, id).v < MaxResponses
  /\ store' = SetItem(UpdateIntentionStats(store, id, Interested).store,
                      UserChoiceKey(id), Interested)
  /\ UNCHANGED <<now, obs, pages, intention, codecVars, statsVars, homeVars, formVars>>

\* the links somebody may answer
Respondable ==
  {StringOf(Field(home.savedVibes.v[i], KeyId)) : i \in 1..Len(home.savedVibes.v)}

\* time passes
HomeTick ==
  /\ \E t \in HomeInstants : t > now /\ now' = t
  /\ UNCHANGED <<store, obs, pages, intention, codecVars, statsVars, homeVars, formVars>>

NextHome ==
  \/ MountHome
  \/ CloseHome
  \/ \E w \in HomeWhats : HandleIntentionPreview(w)
  \/ HandleConfirm
  \/ HandleBackToEdit
  \/ CheckMyLinks
  \/ CloseList
  \/ CreateAnother
  \/ CheckWhoIsInterested
  \/ \E id \in Respondable : Respond(id)
  \/ HomeTick

SpecHome == InitHome /\ [][NextHome]_vars

\* the vibes of a list that were created 24 hours or more before at
Overdue(vibes, at) ==
  {i \in 1..Len(vibes) : at - Field(vibes[i], KeyCreated).v >= RetentionMs}

\* C19: neither the list stored under 'my-vibes' nor the list the Home page
\* holds (the one the 'your links' view shows) ever contains a vibe created
\* 86400000 ms or more before the current clock reading
C19_Retention ==
  /\ Overdue(StoredVibes(store), now) = {}
  /\ home.open => Overdue(home.savedVibes.v, now) = {}

(***************************************************************************)
(* The Open Graph image route, GET /api/og?payload=p: SpecOg               *)
(***************************************************************************)
\* "Someone's ambient intention"
DefaultWhat ==
  U(<<"S", "o", "m", "e", "o", "n", "e", "'", "s", " ", "a", "m", "b", "i", "e", "n",
      "t", " ", "i", "n", "t", "e", "n", "t", "i", "o", "n">>)

\* "Join naturally"
DefaultNote ==
  U(<<"J", "o", "i", "n", " ", "n", "a", "t", "u", "r", "a", "l", "l", "y">>)

\* getDefaultIntention() at clock reading at: when is the instant itself,
\* new Date().toISOString()
GetDefaultIntention(at) ==
  [what |-> Str(DefaultWhat), when |-> at, where |-> Str(<<>>),
   note |-> Str(DefaultNote), createdAt |-> Num(at)]

\* formatTime of the route for the instant t at clock reading at: the
\* "Today at" form with the minute of the day when both fall on one day,
\* else the day and the minute of the day
FormatTimeOg(t, at) ==
  [today |-> (t \div MsPerDay) = (at \div MsPerDay),
   day |-> IF (t \div MsPerDay) = (at \div MsPerDay) THEN 0 ELSE t \div MsPerDay,
   minute |-> (t % MsPerDay) \div MsPerMinute]

\* the fields the image shows for an intention of the route's shape
OgImage(i, at) ==
  [status |-> 200,
   what |-> i.what,
   time |-> FormatTimeOg(i.when, at),
   location |-> IF Truthy(i.where) THEN i.where ELSE Str(<<>>),
   note |-> i.note]

\* the 400 answer 'Missing payload parameter'
OgMissing ==
  [status |-> 400, what |-> Undefined, time |-> Undefined, location |-> Undefined,
   note |-> Undefined]

\* GET(request) with the payload p of the query string
OgGet(p, at) ==
  IF p = <<>> THEN OgMissing ELSE OgImage(GetDefaultIntention(at), at)

\* a crawler asks for the preview image of the link
OgRequest ==
  /\ phase = "token"
  /\ obs' = <<OgGet(payload, now)>>
  /\ phase' = "og"
  /\ UNCHANGED <<input, payload, result, intention, now, pageVars, statsVars, homeVars, formVars>>

NextOg == Encode \/ Corrupt \/ OgRequest

SpecOg == InitCodec /\ [][NextOg]_vars

\* C21: for a valid token the image shows the activity, the place and the
\* note of decodeIntention(payload) (no place, no note when the intention
\* has none)
C21_OgShowsIntention ==
  (phase = "og" /\ DecodeIntention(payload).ok
     /\ IsCompleteIntention(DecodeIntention(payload).val)) =>
    /\ obs[1].status = 200
    /\ obs[1].what = Field(DecodeIntention(payload).val, KeyWhat)
    /\ obs[1].location = (IF HasKey(DecodeIntention(payload).val, KeyWhere)
                          THEN Field(DecodeIntention(payload).val, KeyWhere)
                          ELSE Str(<<>>))
    /\ Truthy(obs[1].note) = HasKey(DecodeIntention(payload).val, KeyNote)

(***************************************************************************)
(* IntentionForm inside the Home page, up to the created link: SpecForm    *)
(***************************************************************************)
\* the longest note the input keeps, slice(0, 50)
MaxNoteLength == 50

\* a note one character longer than the input keeps
LongNote == [i \in 1..(MaxNoteLength + 1) |-> 97]

\* what somebody types into the four inputs
FormWhats == {<<>>, <<32, 32>>, WhatGo, <<9>> \o WhatHm \o <<32>>}
FormWhens == {<<>>, When0300}
FormWheres == {<<>>, WhereDolores}
FormNotes == {<<>>, NoteQuote, LongNote}
Presets == {"now", "30min", "tonight"}

\* getTimeForPreset(preset) at clock reading at, in a UTC time zone
GetTimeForPreset(preset, at, when) ==
  CASE preset = "now" -> ToISOMinutes(at)
    [] preset = "30min" -> ToISOMinutes(at + 30 * MsPerMinute)
    [] preset = "tonight" -> ToISOMinutes((at \div MsPerDay) * MsPerDay + 19 * MsPerHour)
    [] OTHER -> when

\* the form of the form view is mounted
FormShown == home.open /\ HomeView(home) = "form"

\* onChange of the what input
SetWhat(w) ==
  /\ FormShown
  /\ form' = [form EXCEPT !.what = w, !.errors = @ \ {"what"}]
  /\ UNCHANGED <<store, now, obs, pages, intention, codecVars, statsVars, homeVars>>

\* one of the buttons now, in 30min, tonight
SetTimePreset(preset) ==
  /\ FormShown
  /\ form' = [form EXCEPT !.timePreset = preset,
                          !.when = GetTimeForPreset(preset, now, form.when)]
  /\ UNCHANGED <<store, now, obs, pages, intention, codecVars, statsVars, homeVars>>

\* the button around the datetime-local input
SetCustom ==
  /\ FormShown
  /\ form' = [form EXCEPT !.timePreset = "custom"]
  /\ UNCHANGED <<store, now, obs, pages, intention, codecVars, statsVars, homeVars>>

\* onChange of the datetime-local input, which is there for the preset
\* 'custom' only
SetWhen(t) ==
  /\ FormShown
  /\ form.timePreset = "custom"
  /\ form' = [form EXCEPT !.when = t, !.errors = @ \ {"when"}]
  /\ UNCHANGED <<store, now, obs, pages, intention, codecVars, statsVars, homeVars>>

\* onChange of the where input
SetWhere(wh) ==
  /\ FormShown
  /\ form' = [form EXCEPT !.where = wh]
  /\ UNCHANGED <<store, now, obs, pages, intention, codecVars, statsVars, homeVars>>

\* onChange of the note input
SetNote(nt) ==
  /\ FormShown
  /\ form' = [form EXCEPT !.note = SubSeq(nt, 1, IF Len(nt) < MaxNoteLength THEN Len(nt)
                                                 ELSE MaxNoteLength)]
  /\ UNCHANGED <<store, now, obs, pages, intention, codecVars, statsVars, homeVars>>

\* validateForm without the check of what
ValidateFormLax(f) == IF f.when = <<>> THEN {"when"} ELSE {}

\* validateForm(): the names of the fields with an error
ValidateForm(f) ==
  (IF Trim(f.what) = <<>> THEN {"what"} ELSE {}) \cup (IF f.when = <<>> THEN {"when"} ELSE {})

\* x || undefined
OrUndefined(x) == IF x = <<>> THEN Undefined ELSE Str(x)

\* the intentionData of handleSubmit
IntentionDataOf(f, at) ==
  Obj(<<<<KeyWhat, Str(f.what)>>, <<KeyWhen, Str(f.when)>>,
        <<KeyWhere, OrUndefined(f.where)>>, <<KeyNote, OrUndefined(f.note)>>,
        <<KeyCreatedAt, Num(at)>>>>)

\* handleSubmit past preventDefault, newErrors being what validateForm found:
\* with an error nothing is emitted; else the data goes to
\* handleIntentionPreview and the Home page leaves the form view, so the
\* form is unmounted and its next mount starts from the initial values
Submit(newErrors) ==
  IF newErrors # {}
  THEN /\ form' = [form EXCEPT !.errors = newErrors]
       /\ UNCHANGED home
  ELSE /\ home' = [home EXCEPT !.confirmationData = IntentionDataOf(form, now)]
       /\ form' = InitialForm(now)

\* handleSubmit
HandleSubmit ==
  /\ FormShown
  /\ Submit(ValidateForm(form))
  /\ UNCHANGED <<store, now, obs, pages, intention, codecVars, statsVars>>

NextForm ==
  \/ MountHome
  \/ \E w \in FormWhats : SetWhat(w)
  \/ \E preset \in Presets : SetTimePreset(preset)
  \/ SetCustom
  \/ \E t \in FormWhens : SetWhen(t)
  \/ \E wh \in FormWheres : SetWhere(wh)
  \/ \E nt \in FormNotes : SetNote(nt)
  \/ HandleSubmit
  \/ HandleBackToEdit
  \/ HandleConfirm

SpecForm == InitHome /\ [][NextForm]_vars

\* x reads as undefined or as a non-empty string
AbsentOrFilled(x) == x.t = "undefined" \/ (x.t = "str" /\ x.v # <<>>)

\* x has a non-blank what and a non-empty when
HasActivityAndTime(x) ==
  /\ Field(x, KeyWhat).t = "str" /\ Trim(Field(x, KeyWhat).v) # <<>>
  /\ Field(x, KeyWhen).t = "str" /\ Field(x, KeyWhen).v # <<>>

\* the data the confirmation view holds, if any, has a non-blank what, a
\* non-empty when, and where and note undefined or non-empty; the token of
\* the created link, if any, decodes to an intention with a non-blank what
\* and a non-empty when
GatedData ==
  /\ Truthy(home.confirmationData) =>
       /\ HasActivityAndTime(home.confirmationData)
       /\ AbsentOrFilled(Field(home.confirmationData, KeyWhere))
       /\ AbsentOrFilled(Field(home.confirmationData, KeyNote))
  /\ Truthy(home.createdUrl) =>
       /\ DecodeIntention(LastSegment(home.createdUrl.v)).ok
       /\ HasActivityAndTime(DecodeIntention(LastSegment(home.createdUrl.v)).val)

\* a step in which the form emits data starts with what non-blank and when
\* non-empty
GatedSubmit ==
  (Truthy(home'.confirmationData) /\ ~Truthy(home.confirmationData)) =>
    (Trim(form.what) # <<>> /\ form.when # <<>>)

\* C22: onIntentionPreview is called only with what non-blank and when
\* non-empty, where and note of the emitted data are undefined and never
\* empty strings, and every token made from such data decodes to an
\* intention with a non-blank activity and a time
C22_FormGating == [](GatedData) /\ [][GatedSubmit]_vars

\* a link was created from a form with a place and without a note, and its
\* token decodes to an intention with that place and no note
C22_Witness ==
  /\ Truthy(home.createdUrl)
  /\ HasKey(DecodeIntention(LastSegment(home.createdUrl.v)).val, KeyWhere)
  /\ ~HasKey(DecodeIntention(LastSegment(home.createdUrl.v)).val, KeyNote)

(***************************************************************************)
(* Claims about the views of the Home page                                 *)
(***************************************************************************)
\* the view of the Home page, "closed" when it is not open
ViewOf(h) == IF h.open THEN HomeView(h) ELSE "closed"

\* a step that enters the confirmation view starts in the form view, and a
\* step that enters the success view starts in the confirmation view
ViewEntry ==
  /\ (ViewOf(home') = "confirmation" /\ ViewOf(home) # "confirmation") =>
       ViewOf(home) = "form"
  /\ (ViewOf(home') = "success" /\ ViewOf(home) # "success") =>
       ViewOf(home) = "confirmation"

\* from the confirmation, success and list views one press of a button of
\* that view gives the form view
BackToForm ==
  /\ ViewOf(home) = "confirmation" => ENABLED (HandleBackToEdit /\ ViewOf(home') = "form")
  /\ ViewOf(home) = "success" => ENABLED (CreateAnother /\ ViewOf(home') = "form")
  /\ ViewOf(home) = "list" => ENABLED (CloseList /\ ViewOf(home') = "form")

\* C23: the confirmation view is entered only from the form view, the
\* success view only from the confirmation view, and each of the
\* confirmation, success and list views has a button that returns to the
\* form view
C23_ViewTransitions == [][ViewEntry]_vars /\ [](BackToForm)

\* the list view with a created link: form, confirmation and success were
\* passed on the way
C23_Witness == ViewOf(home) = "list" /\ Len(home.savedVibes.v) > 0

\* how many of confirmationData, showMyVibes and createdUrl are set
SetCount(h) ==
  (IF Truthy(h.confirmationData) THEN 1 ELSE 0)
  + (IF h.showMyVibes THEN 1 ELSE 0)
  + (IF Truthy(h.createdUrl) THEN 1 ELSE 0)

\* C24: at most one of confirmationData, showMyVibes and createdUrl is set,
\* and the view selected is the one of the field that is set, the form
\* view when none is
C24_OneViewSelected ==
  /\ SetCount(home) <= 1
  /\ HomeView(home) = "confirmation" <=> Truthy(home.confirmationData)
  /\ HomeView(home) = "list" <=> home.showMyVibes
  /\ HomeView(home) = "success" <=> Truthy(home.createdUrl)
  /\ HomeView(home) = "form" <=> SetCount(home) = 0

\* the success view after a creation: only createdUrl is set
C24_Witness ==
  /\ home.open
  /\ Truthy(home.createdUrl)
  /\ SetCount(home) = 1
  /\ Len(home.savedVibes.v) > 1

(***************************************************************************)
(* More claims about the pages                                             *)
(***************************************************************************)
\* page instance p holds a recorded choice or its expired flag is set
Blocked(p) == Truthy(pages[p].hasInteracted) \/ pages[p].isExpired

\* C25: a run of handleInteraction on a page that holds a recorded choice
\* or whose expired flag is set changes neither the store (stats and
\* markers) nor any page's state (displayed stats, recorded choice)
C25_BlockedIsNoOp ==
  [][\A p \in Pages : (pages[p].open /\ Blocked(p) /\ HandleInteraction(p)) =>
        UNCHANGED <<store, pages>>]_vars

\* handleInteraction has run on a page that holds a recorded choice, after
\* an interaction was stored
C25_Witness ==
  /\ obs = <<>>
  /\ \E p \in Pages :
       /\ pages[p].open
       /\ Truthy(pages[p].hasInteracted)
       /\ UserChoiceKey(pages[p].payload) \in DOMAIN store

(***************************************************************************)
(* More claims about the stats calls                                       *)
(***************************************************************************)
\* both stored counters of every token are integers from 0 up
CountersNatural ==
  \A t \in Links, k \in Kinds :
    Field(GetIntentionStats(store, t), k).t = "num" /\ CountOf(store, t, k) \in Nat

\* the step lowers no stored counter
NoneLowered == \A t \in Links, k \in Kinds : CountOf(store', t, k) >= CountOf(store, t, k)

\* C26: with the read and the write of updateIntentionStats as separate
\* steps of possibly different callers, both stored counters of every token
\* are integers >= 0 and no step lowers a stored counter
C26_CountersOnlyGrow == [](CountersNatural) /\ [][NoneLowered]_vars

(***************************************************************************)
(* Claims about the store and what the pages display                       *)
(***************************************************************************)
\* C27: whenever the store holds the user-choice marker of a token it holds
\* the stats entry of that token, with interested >= 1
C27_MarkerImpliesCount ==
  \A link \in Links :
    UserChoiceKey(link) \in DOMAIN store =>
      /\ GetStorageKey(link) \in DOMAIN store
      /\ InterestedOf(store, link).t = "num"
      /\ InterestedOf(store, link).v >= 1

\* both links have their marker, one of them answered from two page
\* instances
C27_Witness ==
  /\ \A link \in Links : UserChoiceKey(link) \in DOMAIN store
  /\ \E link \in Links : InterestedOf(store, link).v = 2

\* a is the value b: both null, or the same string
SameChoice(a, b) == a.t = b.t /\ (a.t = "str" => a.v = b.v)

\* what page instance pg displays is what st holds: its stats are
\* getIntentionStats(payload) and its hasInteracted is the stored marker
Tracks(pg, st) ==
  /\ pg.stats = GetIntentionStats(st, pg.payload)
  /\ SameChoice(pg.hasInteracted, GetItem(st, UserChoiceKey(pg.payload)))

\* in this step another page instance on the token of p runs
\* handleInteraction
OtherActs(p) ==
  \E q \in Pages \ {p} :
    pages[q].open /\ pages[q].payload = pages[p].payload /\ HandleInteraction(q)

\* C28: a page displays the stored state right after its mount and after
\* every handleInteraction of its own that is not blocked, and a page that
\* displays the stored state goes on doing so through every step that is
\* not a handleInteraction of another page instance on the same token, so
\* a single page for a token always displays the stored state
C28_DisplayTracksStore ==
  [][\A p \in Pages :
       pages'[p].open =>
         /\ ~pages[p].open => Tracks(pages'[p], store')
         /\ (pages[p].open /\ ~Blocked(p) /\ HandleInteraction(p)) => Tracks(pages'[p], store')
         /\ (pages[p].open /\ Tracks(pages[p], store) /\ ~OtherActs(p)) =>
              Tracks(pages'[p], store')]_vars

\* two page instances are open on one token, and one of them displays a
\* count and a choice that are not the stored ones
C28_Witness ==
  \E p \in Pages, q \in Pages :
    /\ p # q
    /\ pages[p].open /\ pages[q].open
    /\ pages[p].payload = pages[q].payload
    /\ Tracks(pages[q], store)
    /\ pages[p].stats # GetIntentionStats(store, pages[p].payload)
    /\ ~SameChoice(pages[p].hasInteracted, GetItem(store, UserChoiceKey(pages[p].payload)))

(***************************************************************************)
(* Claims about the creator's response count                               *)
(***************************************************************************)
\* the id of a vibe
IdOf(vibe) == StringOf(Field(vibe, KeyId))

\* a step that creates a link saves, last in the list, a vibe whose id is
\* the token of the data confirmed, and the key checkResponses reads for
\* that id is the stats key of the token
IdIsToken ==
  HandleConfirm =>
    /\ home'.createdUrl.v = CreateIntentionUrl(home.confirmationData)
    /\ IdOf(home'.savedVibes.v[Len(home'.savedVibes.v)]) = EncodeIntention(home.confirmationData)
    /\ VibeStatsKey(IdOf(home'.savedVibes.v[Len(home'.savedVibes.v)]))
         = GetStorageKey(EncodeIntention(home.confirmationData))

\* after a step that runs checkResponses every vibe of the list has the
\* stored interested count of its token as responses
ResponsesAreCounts ==
  (CheckMyLinks \/ CheckWhoIsInterested) =>
    \A i \in 1..Len(home'.savedVibes.v) :
      /\ Field(home'.savedVibes.v[i], KeyResponses).t = "num"
      /\ Field(home'.savedVibes.v[i], KeyResponses).v
           = InterestedOf(store', IdOf(home'.savedVibes.v[i])).v

\* C29: the id saved for a created link is the token of its URL, so
\* checkResponses reads the entry updateIntentionStats writes for that
\* token, and after checkResponses the responses of every vibe are the
\* stored interested count of its token
C29_ResponsesReadStats == [][IdIsToken /\ ResponsesAreCounts]_vars

\* the list shows a link with a response counted
C29_Witness ==
  /\ ViewOf(home) = "list"
  /\ \E i \in 1..Len(home.savedVibes.v) : Field(home.savedVibes.v[i], KeyResponses).v >= 1

(***************************************************************************)
(* More claims about the policy functions                                  *)
(***************************************************************************)
\* the full where string of the intention
FullWhere == Field(intention, KeyWhere).v

\* the last evaluation returned the full where string
FullShown == obs # <<>> /\ Truthy(Field(intention, KeyWhere)) /\ obs[1].location = FullWhere

\* once the full where string was returned, getLocationPrecision returns it
\* at every clock reading from that one on
FullFromThenOn ==
  FullShown =>
    \A t \in Instants : t >= obs[1].at => GetLocationPrecision(intention, t) = FullWhere

\* an evaluation that follows one that returned the full where string
\* returns it too
FullStays == (FullShown /\ obs' # obs) => obs'[1].location = FullWhere

\* C30: for a fixed intention with a place and a clock that never goes
\* backwards, once getLocationPrecision has returned the full where string
\* it returns it at every later time
C30_DisclosureOneWay == [](FullFromThenOn) /\ [][FullStays]_vars

\* the full where string is shown for an intention that had its coarsened
\* form shown at the start
C30_Witness ==
  /\ FullShown
  /\ obs[1].at > 0
  /\ GetLocationPrecision(intention, 0) # FullWhere
====
